---- MODULE Spec2Model ----
(***************************************************************************)
(* Verification model of parts of the Angular runtime and compiler.        *)
(*                                                                         *)
(* Part 1: R3ViewContainerRef (src/unnamed/part_006, lines 979-1280):      *)
(*         insert / move / remove / detach / clear on the ordered list of  *)
(*         views of a view container, with the LContainer slots, the       *)
(*         VIEW_REFS array and the DOM sibling order as separate state.    *)
(* Part 2: the node injector's provider resolution                         *)
(*         (src/packages/core/src/render3/instructions/listener.ts,        *)
(*         lines 381-690): providersResolver, resolveProvider and the      *)
(*         multi-provider factories.                                       *)
(***************************************************************************)
EXTENDS Integers, Sequences, FiniteSets, TLC

(***************************************************************************)
(* Bounds of the model.                                                    *)
(***************************************************************************)
\* Number of LViews that createEmbeddedView can create in one run.
MaxViews == 3

Views == 1..MaxViews
\* Two view containers, so that a view can be moved between containers.
Containers == {"C", "D"}
\* lView[PARENT] of a view that is in no container.
NoParent == "null"
\* An index argument is <<>> when omitted (index == null) and <<i>> otherwise.
NoIndex == <<>>
IndexArgs == {NoIndex} \cup {<<i>> : i \in (0 - 1)..MaxViews}

VARIABLES
  ngDevMode,        \* build flag: assertions are compiled in only when TRUE
  hasNativeParent,  \* per container: nativeParentNode(renderer, lContainer[NATIVE]) !== null
  lContainer,       \* per container: the LViews in the slots after CONTAINER_HEADER_OFFSET
  viewRefs,         \* per container: lContainer[VIEW_REFS] (null is the empty array)
  dom,              \* per container: the views whose DOM nodes precede its anchor, in sibling order
  parent,           \* per view: lView[PARENT], the container it is attached to
  status,           \* per view: "none" (not created), "live", "destroyed"
  call              \* the last API call: its arguments, outcome and the primitive steps it took

vcrVars == <<ngDevMode, hasNativeParent, lContainer, viewRefs, dom, parent, status, call>>

\* Longest viewProviders / providers array of one definition.
MaxProviders == 2
\* Number of directives on the node besides the component.
MaxDirectives == 1
\* Largest number of tView.data slots in use before the node's injectables.
MaxStartIndex == 1

\* DI tokens; a token is registered either always with multi: true or never.
MultiTokens == {"TOK"}
SingleTokens == {"SVC"}
Tokens == MultiTokens \cup SingleTokens

VARIABLES
  firstCreatePass,  \* tView.firstCreatePass
  tData,            \* tView.data: the tokens of the injectable slots (tInjectables)
  blueprint,        \* tView.blueprint: the NodeInjectorFactory of each slot (lView holds the same objects)
  directiveStart,   \* tNode.directiveStart
  directiveEnd,     \* tNode.directiveEnd
  providerIndexes,  \* tNode.providerIndexes: start index and view-provider count, packed
  defsResolved,     \* number of definitions of the node whose providersResolver has run
  registrations,    \* every provider handed to providersResolver so far, in the order handed
  injected          \* the last token lookup on the node and its result

diVars == <<firstCreatePass, tData, blueprint, directiveStart, directiveEnd, providerIndexes,
            defsResolved, registrations, injected>>

\* Listener instructions in the template function of one view.
MaxInstructions == 3
\* LViews created from the view's TView.
MaxLViews == 2

\* The nodes of the view, by tNode.index, and the event names used in it.
Nodes == {1, 2}
EventNames == {"click", "keyup"}

VARIABLES
  tNode,            \* per node: is it an element (TNodeType.AnyRNode), a directive host, its outputs
  creationPass,     \* tView.firstCreatePass of the view with the listeners
  template,         \* the instructions of the template function run so far in the first pass
  lViewId,          \* the LView being created: 1 is the first one made from the TView
  pc,               \* number of instructions the LView being created has run
  tCleanup,         \* tView.cleanup, a flat array
  lCleanup,         \* lView[CLEANUP] of the LView being created, a flat array
  listenCalls,      \* every renderer.listen call so far
  subscriptions,    \* every output.subscribe call so far
  nextListenerFn,   \* per listener function: __ngNextListenerFn__ (0: none)
  lastListenerFn,   \* per listener function: __ngLastListenerFn__ (0: none)
  listenerErr,      \* a property was set on a cleanup entry that is no listener function
  dispatch          \* the last native event dispatched to a listener: <<>> before

listenerVars == <<tNode, creationPass, template, lViewId, pc, tCleanup, lCleanup, listenCalls,
                  subscriptions, nextListenerFn, lastListenerFn, listenerErr, dispatch>>

\* Longest list of decorators on one constructor parameter.
MaxDecorators == 2

\* Longest inputs or outputs array of a decorator.
MaxMappings == 2
\* Most entries of a host object.
MaxHostBindings == 2
\* Most host directives of a directive.
MaxHostDirectives == 2

VARIABLES
  clazz,            \* the class declaration under analysis, as the reflection host gives it
  isCore,           \* is @angular/core itself being compiled
  decorator,        \* the @Directive or @Component decorator of the class
  defaultSelector,  \* the default selector the handler passes: <<>> for null
  ngModule,         \* the NgModule resolved after the analysis
  analysis,         \* what the analysis of the class returned or threw; NotAnalyzed before
  resolution        \* what the resolution of the NgModule returned or threw

compilerVars == <<clazz, isCore, decorator, defaultSelector, ngModule, analysis, resolution>>

\* Most callbacks handed to whenStable.
MaxCallbacks == 2
\* Most pending requests counted at one time.
MaxPendingRequests == 1
\* Most microtasks waiting at one time.
MaxMicroTasks == 2

VARIABLES
  pendingCount,          \* Testability._pendingCount
  isZoneStable,          \* Testability._isZoneStable
  didWork,               \* Testability._didWork
  callbacks,             \* Testability._callbacks: the queued WaitCallbacks
  taskTrackingZone,      \* is the TaskTrackingZone loaded
  hasPendingMacrotasks,  \* NgZone.hasPendingMacrotasks
  timeouts,              \* the timers set and neither fired nor cleared
  microTasks,            \* the microtasks scheduled and not yet run, in order
  timeoutIds,            \* how many timers were set: the last timeoutId given out
  whenStableCalls,       \* how many callbacks whenStable has queued
  doneCalls              \* the calls of done callbacks so far, in order

testabilityVars == <<pendingCount, isZoneStable, didWork, callbacks, taskTrackingZone,
                     hasPendingMacrotasks, timeouts, microTasks, timeoutIds,
                     whenStableCalls, doneCalls>>

\* Most resource-only changes handed to one compiler.
MaxTickets == 1

VARIABLES
  options,        \* NgCompiler.options: the compilationMode asked for
  inputProgram,   \* the program compiled: what of it the analysis depends on
  compilation,    \* NgCompiler.compilation: <<>> for null, else the one LazyCompilationState
  traitCompiler,  \* the trait compiler of the compilation with the registries it feeds
  promises,       \* the analyses issued by analyzeAsync, per source file
  analyzing,      \* where analyzeAsync stands
  ticket,         \* the resource-only changes processed: how many, and the last one
  observed        \* what the last call of the compiler gave its caller

ngCompilerVars == <<options, inputProgram, compilation, traitCompiler, promises, analyzing,
                    ticket, observed>>

VARIABLES
  ngModules,         \* the analyses of the NgModules of the program
  scopeMode,         \* the CompilationMode of the compilation
  moduleRegistry,    \* the NgModule metadata registered, per module: <<>> before
  traversal,         \* the scope computation under way
  scopeCache,        \* the scopes computed, per module: <<>> before
  scopeDiagnostics,  \* the diagnostics of the scope registry, in order
  remoteScopes       \* the components that are remotely scoped

scopeVars == <<ngModules, scopeMode, moduleRegistry, traversal, scopeCache, scopeDiagnostics,
               remoteScopes>>

\* Views attached when clear() is called.
MaxAttached == 2

VARIABLES
  slots,         \* the views of the container, in order
  destroyHook,   \* per view: what the ngOnDestroy hook of a directive in it does
  spawnHook,     \* the hook of the views that a hook creates
  destroyCount,  \* per view: how often its destroy hooks have run
  attached,      \* the views the container held when clear() was called
  clearing       \* where the call of clear() stands

clearVars == <<slots, destroyHook, spawnHook, destroyCount, attached, clearing>>


\* Calls of configureTestingModule in one test.
MaxConfigureCalls == 2
\* Fixtures that one test creates.
MaxFixtures == 2

VARIABLES
  unknownStrictMode,   \* the global unknown-element and unknown-property strict modes
  environmentOptions,  \* the options given to initTestEnvironment
  instanceOptions,     \* _instanceTeardownOptions and _instanceErrorOnUnknown*Option
  previousOptions,     \* _previousErrorOnUnknownElementsOption and ...PropertiesOption
  activeFixtures,      \* _activeFixtures
  testModuleRef,       \* _testModuleRef: <<>> is null
  testRun,             \* the current test: its configure calls, the modes before them
  lastReset            \* what the last call of resetTestingModule did

testBedVars ==
  <<unknownStrictMode, environmentOptions, instanceOptions, previousOptions,
    activeFixtures, testModuleRef, testRun, lastReset>>


\* What the operations of one part leave alone: the state of the other parts.
besidesClear ==
  <<vcrVars, diVars, listenerVars, compilerVars, testabilityVars, ngCompilerVars,
    scopeVars, testBedVars>>
besidesTestBed ==
  <<vcrVars, diVars, listenerVars, compilerVars, testabilityVars, ngCompilerVars,
    scopeVars, clearVars>>
besidesVcr ==
  <<diVars, listenerVars, compilerVars, testabilityVars, ngCompilerVars, scopeVars,
    clearVars, testBedVars>>
besidesDi ==
  <<vcrVars, listenerVars, compilerVars, testabilityVars, ngCompilerVars, scopeVars,
    clearVars, testBedVars>>
besidesListener ==
  <<vcrVars, diVars, compilerVars, testabilityVars, ngCompilerVars, scopeVars, clearVars,
    testBedVars>>
besidesCompiler ==
  <<vcrVars, diVars, listenerVars, testabilityVars, ngCompilerVars, scopeVars, clearVars,
    testBedVars>>
besidesNgCompiler ==
  <<vcrVars, diVars, listenerVars, compilerVars, testabilityVars, scopeVars, clearVars,
    testBedVars>>
besidesScope ==
  <<vcrVars, diVars, listenerVars, compilerVars, testabilityVars, ngCompilerVars,
    clearVars, testBedVars>>
besidesTestability ==
  <<vcrVars, diVars, listenerVars, compilerVars, ngCompilerVars, scopeVars, clearVars,
    testBedVars>>

(***************************************************************************)
(* Sequence helpers.                                                       *)
(***************************************************************************)
\* Array.prototype.indexOf, 0-based, -1 when absent.
ArrayIndexOf(arr, x) ==
  IF \E i \in 1..Len(arr) : arr[i] = x
  THEN (CHOOSE i \in 1..Len(arr) : arr[i] = x /\ \A k \in 1..(i - 1) : arr[k] # x) - 1
  ELSE 0 - 1

Without(arr, x) == SelectSeq(arr, LAMBDA y : y # x)

Count(arr, x) == Cardinality({i \in 1..Len(arr) : arr[i] = x})

\* util/array_utils addToArray: splice(index, 0, value), push when index is at or past the end.
addToArray(arr, index, value) ==
  IF index >= Len(arr) THEN Append(arr, value)
  ELSE LET at == IF index < 0 THEN 0 ELSE index
       IN SubSeq(arr, 1, at) \o <<value>> \o SubSeq(arr, at + 1, Len(arr))

\* util/array_utils removeFromArray: pop when index is the last one or past it, splice otherwise.
removeFromArray(arr, index) ==
  IF Len(arr) = 0 THEN arr
  ELSE IF index >= Len(arr) - 1 THEN SubSeq(arr, 1, Len(arr) - 1)
  ELSE LET at == IF index < 0 THEN 0 ELSE index
       IN SubSeq(arr, 1, at) \o SubSeq(arr, at + 2, Len(arr))

(***************************************************************************)
(* The world a call works on: the container state plus what the call has   *)
(* done so far (err: the exception that ended it, ops: the primitive       *)
(* mutations in the order they were made, hooks: what each destroy hook    *)
(* observed when it ran).                                                  *)
(***************************************************************************)
World ==
  [lContainer |-> lContainer, viewRefs |-> viewRefs, dom |-> dom, parent |-> parent,
   status |-> status, err |-> "none", ops |-> <<>>, hooks |-> <<>>]

Raise(w, e) == [w EXCEPT !.err = e]

Log(w, op, c, v) == [w EXCEPT !.ops = Append(@, [op |-> op, c |-> c, v |-> v])]

\* ViewContainerRef.length: this._lContainer.length - CONTAINER_HEADER_OFFSET.
length(w, c) == Len(w.lContainer[c])

\* ViewContainerRef.indexOf: viewRefsArr.indexOf(viewRef), -1 without a VIEW_REFS array.
indexOfView(w, c, v) == ArrayIndexOf(w.viewRefs[c], v)

\* ViewContainerRef.get(index).
get(w, c, i) == IF i >= 0 /\ i < Len(w.viewRefs[c]) THEN <<w.viewRefs[c][i + 1]>> ELSE <<>>

\* view_utils viewAttachedToContainer: isLContainer(view[PARENT]).
viewAttachedToContainer(w, v) == w.parent[v] # NoParent

(***************************************************************************)
(* Helpers of node_manipulation.ts that the container methods call.        *)
(***************************************************************************)
\* detachView(lContainer, removeIndex): takes the view at that slot out of the
\* LContainer, removes its DOM nodes and clears its PARENT; returns the view,
\* or undefined (<<>>) when the slot holds no view, which is what the callers'
\* `if (detachedView)` and `view && ...` guards handle.
detachView(w, c, removeIndex) ==
  IF removeIndex >= 0 /\ removeIndex < Len(w.lContainer[c])
  THEN LET v == w.lContainer[c][removeIndex + 1]
       IN [view |-> <<v>>,
           w |-> Log([w EXCEPT !.lContainer[c] = removeFromArray(@, removeIndex),
                               !.dom = [d \in Containers |-> Without(w.dom[d], v)],
                               !.parent[v] = NoParent],
                     "detachView", c, v)]
  ELSE [view |-> <<>>, w |-> w]

\* insertView(tView, lView, lContainer, index): puts the view into the slot and
\* sets its PARENT. An index outside 0..length is an error, never a clamp.
insertView(w, v, c, index) ==
  IF index < 0 \/ index > Len(w.lContainer[c])
  THEN Raise(w, "insertView")
  ELSE Log([w EXCEPT !.lContainer[c] = addToArray(@, index, v),
                     !.parent[v] = c],
           "insertView", c, v)

\* getBeforeNodeForView(viewIndexInContainer, lContainer): the first DOM node of
\* the view in the next slot, or the container's anchor (<<>>) when there is none.
getBeforeNodeForView(w, viewIndexInContainer, c) ==
  IF viewIndexInContainer + 1 < Len(w.lContainer[c])
  THEN <<w.lContainer[c][viewIndexInContainer + 2]>>
  ELSE <<>>

\* addViewToContainer(..., lView, parentRNode, beforeNode): insertBefore of the
\* view's DOM nodes, which also takes them out of wherever they were.
addViewToContainer(w, c, v, beforeNode) ==
  LET cleared == [d \in Containers |-> Without(w.dom[d], v)]
      at == IF beforeNode = <<>> THEN 0 - 1 ELSE ArrayIndexOf(cleared[c], beforeNode[1])
      placed == IF at < 0 THEN Append(cleared[c], v) ELSE addToArray(cleared[c], at, v)
  IN Log([w EXCEPT !.dom = [cleared EXCEPT ![c] = placed]], "addViewToContainer", c, v)

\* What the ngOnDestroy hook of a directive inside view v does with the container
\* the view is removed from (the reentrancy the comment in remove() describes).
HookOf(v) ==
  CASE v % 3 = 1 -> "clear"
    [] v % 3 = 2 -> "length"
    [] OTHER -> "remove"

(***************************************************************************)
(* R3ViewContainerRef.                                                     *)
(***************************************************************************)
\* A mutant of _adjustIndex: the assertions are dropped.
AdjustIndexNoAssert(w, c, index, shift) ==
  IF index = NoIndex THEN [idx |-> length(w, c) + shift, err |-> "none"]
  ELSE [idx |-> index[1], err |-> "none"]

\* _adjustIndex(index?, shift = 0).
_adjustIndex(w, c, index, shift) ==
  IF index = NoIndex THEN [idx |-> length(w, c) + shift, err |-> "none"]
  ELSE IF ngDevMode /\ ~(index[1] > 0 - 1) THEN [idx |-> index[1], err |-> "assert"]
  ELSE IF ngDevMode /\ ~(index[1] < length(w, c) + 1 + shift)
       THEN [idx |-> index[1], err |-> "assert"]
  ELSE [idx |-> index[1], err |-> "none"]

\* detach(index?): returns the detached view (<<>> for null) with the new world.
detach(w, c, index) ==
  LET a == _adjustIndex(w, c, index, 0 - 1)
  IN IF a.err # "none" THEN [view |-> <<>>, w |-> Raise(w, a.err)]
     ELSE LET d == detachView(w, c, a.idx)
          IN IF d.view = <<>> THEN d
             ELSE [view |-> d.view,
                   w |-> Log([d.w EXCEPT !.viewRefs[c] = removeFromArray(@, a.idx)],
                             "removeFromArray", c, d.view[1])]

RECURSIVE remove(_, _, _)
RECURSIVE clear(_, _)
RECURSIVE destroyLView(_, _, _)

\* destroyLView(tView, lView): marks the view destroyed, then runs its destroy
\* hooks; a hook sees the container (length, indexOf) and may call remove() or
\* clear() on it. A view that is already destroyed is left alone.
destroyLView(w, v, c) ==
  IF w.status[v] = "destroyed" THEN w
  ELSE LET marked == Log([w EXCEPT !.status[v] = "destroyed"], "destroyLView", c, v)
           seen == [marked EXCEPT !.hooks =
                      Append(@, [v |-> v, c |-> c,
                                 length |-> length(marked, c),
                                 indexOf |-> indexOfView(marked, c, v),
                                 refs |-> Len(marked.viewRefs[c])])]
       IN CASE HookOf(v) = "clear" -> clear(seen, c)
            [] HookOf(v) = "remove" -> remove(seen, c, NoIndex)
            [] OTHER -> seen

\* A mutant of remove: the view is destroyed before it is taken out of VIEW_REFS
\* and out of the container.
RemoveDestroyFirst(w, c, index) ==
  LET a == _adjustIndex(w, c, index, 0 - 1)
  IN IF a.err # "none" THEN Raise(w, a.err)
     ELSE IF a.idx >= 0 /\ a.idx < Len(w.lContainer[c])
          THEN LET v == w.lContainer[c][a.idx + 1]
                   killed == [w EXCEPT !.status[v] = "destroyed",
                                 !.ops = Append(@, [op |-> "destroyLView", c |-> c, v |-> v]),
                                 !.hooks = Append(@, [v |-> v, c |-> c,
                                                      length |-> length(w, c),
                                                      indexOf |-> indexOfView(w, c, v),
                                                      refs |-> Len(w.viewRefs[c])])]
                   d == detachView(killed, c, a.idx)
               IN Log([d.w EXCEPT !.viewRefs[c] = removeFromArray(@, a.idx)],
                      "removeFromArray", c, v)
          ELSE w

\* remove(index?).
remove(w, c, index) ==
  LET a == _adjustIndex(w, c, index, 0 - 1)
  IN IF a.err # "none" THEN Raise(w, a.err)
     ELSE LET d == detachView(w, c, a.idx)
          IN IF d.view = <<>> THEN d.w
             ELSE destroyLView(
                    Log([d.w EXCEPT !.viewRefs[c] = removeFromArray(@, a.idx)],
                        "removeFromArray", c, d.view[1]),
                    d.view[1], c)

\* clear(): while (this.length > 0) this.remove(this.length - 1).
clear(w, c) ==
  IF length(w, c) > 0 /\ w.err = "none"
  THEN clear(remove(w, c, <<length(w, c) - 1>>), c)
  ELSE w

\* A mutant of detachIfAttached: a view attached to another container is not
\* detached from it.
DetachOnlyFromThis(w, c, v) ==
  IF viewAttachedToContainer(w, v) /\ indexOfView(w, c, v) # 0 - 1
  THEN detach(w, c, <<indexOfView(w, c, v)>>).w
  ELSE w

\* insert, first part: "If view is already attached, detach it first so we clean
\* up references appropriately": from this container when indexOf finds it, else
\* from the container lView[PARENT] points to.
detachIfAttached(w, c, v) ==
  IF viewAttachedToContainer(w, v)
  THEN LET prevIdx == indexOfView(w, c, v)
       IN IF prevIdx # 0 - 1
          THEN detach(w, c, <<prevIdx>>).w
          ELSE LET prevLContainer == w.parent[v]
               IN detach(w, prevLContainer, <<indexOfView(w, prevLContainer, v)>>).w
  ELSE w

\* A mutant of attachView: the DOM nodes are never added.
AttachLogicalOnly(w, c, v, adjustedIdx) ==
  LET logical == insertView(w, v, c, adjustedIdx)
  IN IF logical.err # "none" THEN logical
     ELSE Log([logical EXCEPT !.viewRefs[c] = addToArray(@, adjustedIdx, v)],
              "addToArray", c, v)

\* A mutant of attachView: the DOM nodes are added before the view is put into
\* the LContainer.
AttachPhysicalFirst(w, c, v, adjustedIdx) ==
  LET physical == IF hasNativeParent[c]
                  THEN addViewToContainer(w, c, v,
                         IF adjustedIdx < Len(w.lContainer[c]) /\ adjustedIdx >= 0
                         THEN <<w.lContainer[c][adjustedIdx + 1]>> ELSE <<>>)
                  ELSE w
      logical == insertView(physical, v, c, adjustedIdx)
  IN IF logical.err # "none" THEN logical
     ELSE Log([logical EXCEPT !.viewRefs[c] = addToArray(@, adjustedIdx, v)],
              "addToArray", c, v)

\* A mutant of attachView: the ViewRef is appended to VIEW_REFS whatever the index.
AttachViewRefLast(w, c, v, adjustedIdx) ==
  LET logical == insertView(w, v, c, adjustedIdx)
  IN IF logical.err # "none" THEN logical
     ELSE LET beforeNode == getBeforeNodeForView(logical, adjustedIdx, c)
              physical == IF hasNativeParent[c]
                          THEN addViewToContainer(logical, c, v, beforeNode)
                          ELSE logical
          IN Log([physical EXCEPT !.viewRefs[c] = Append(@, v)], "addToArray", c, v)

\* insert, second part: the logical operation (insertView), the physical one
\* (addViewToContainer, when the anchor has a parent node), then the splice of
\* the ViewRef into VIEW_REFS.
attachView(w, c, v, adjustedIdx) ==
  LET logical == insertView(w, v, c, adjustedIdx)
  IN IF logical.err # "none" THEN logical
     ELSE LET beforeNode == getBeforeNodeForView(logical, adjustedIdx, c)
              physical == IF hasNativeParent[c]
                          THEN addViewToContainer(logical, c, v, beforeNode)
                          ELSE logical
          IN Log([physical EXCEPT !.viewRefs[c] = addToArray(@, adjustedIdx, v)],
                 "addToArray", c, v)

\* A mutant of insert: a view that is already attached is not detached first.
InsertWithoutDetach(w, c, v, index) ==
  IF ngDevMode /\ w.status[v] = "destroyed" THEN Raise(w, "destroyed")
  ELSE LET a == _adjustIndex(w, c, index, 0)
       IN IF a.err # "none" THEN Raise(w, a.err)
          ELSE attachView(w, c, v, a.idx)

\* insert(viewRef, index?).
insert(w, c, v, index) ==
  IF ngDevMode /\ w.status[v] = "destroyed" THEN Raise(w, "destroyed")
  ELSE LET detached == detachIfAttached(w, c, v)
       IN IF detached.err # "none" THEN detached
          ELSE LET a == _adjustIndex(detached, c, index, 0)
               IN IF a.err # "none" THEN Raise(detached, a.err)
                  ELSE attachView(detached, c, v, a.idx)

\* move(viewRef, newIndex).
move(w, c, v, newIndex) ==
  IF ngDevMode /\ w.status[v] = "destroyed" THEN Raise(w, "destroyed")
  ELSE insert(w, c, v, newIndex)

\* No call is in progress: the caller has taken the result of the last one.
Idle ==
  [op |-> "none", c |-> "C", v |-> <<>>, index |-> NoIndex, err |-> "none",
   before |-> <<>>, from |-> NoParent, ops |-> <<>>, hooks |-> <<>>]

(***************************************************************************)
(* The container API as actions. Each action is one complete call; `call`  *)
(* keeps what was asked, what the container looked like before, and what   *)
(* the call did.                                                           *)
(***************************************************************************)
Commit(w, op, c, v, index) ==
  /\ call = Idle
  /\ lContainer' = w.lContainer
  /\ viewRefs' = w.viewRefs
  /\ dom' = w.dom
  /\ parent' = w.parent
  /\ status' = w.status
  /\ call' = [op |-> op, c |-> c, v |-> v, index |-> index, err |-> w.err,
              before |-> lContainer[c], from |-> IF v = <<>> THEN NoParent ELSE parent[v[1]],
              ops |-> w.ops, hooks |-> w.hooks]
  /\ UNCHANGED <<ngDevMode, hasNativeParent, besidesVcr>>

\* createEmbeddedView(templateRef, context, index): a new view, then insert.
CreateEmbeddedView(c, index) ==
  /\ \E v \in Views : status[v] = "none"
  /\ LET v == CHOOSE x \in Views : status[x] = "none" /\ \A y \in Views : status[y] = "none" => x <= y
         created == [World EXCEPT !.status[v] = "live"]
     IN Commit(insert(created, c, v, index), "createEmbeddedView", c, <<v>>, index)

\* A destroyed view is passed only to a build that checks for it: what inserting
\* one does in a build without it is decided by insertView and the renderer.
Insert(c, v, index) ==
  /\ status[v] # "none"
  /\ (ngDevMode \/ status[v] = "live")
  /\ Commit(insert(World, c, v, index), "insert", c, <<v>>, index)

\* "Moves a view to a new location in this container": the caller passes a view
\* of this container and an index.
Move(c, v, index) ==
  /\ status[v] # "none"
  /\ (ngDevMode \/ status[v] = "live")
  /\ parent[v] = c
  /\ index # NoIndex
  /\ Commit(move(World, c, v, index), "move", c, <<v>>, index)

Remove(c, index) == Commit(remove(World, c, index), "remove", c, <<>>, index)

Detach(c, index) == Commit(detach(World, c, index).w, "detach", c, <<>>, index)

Clear(c) == Commit(clear(World, c), "clear", c, <<>>, NoIndex)

\* The call returns (or its exception reaches the caller), who may then make
\* the next call.
Return ==
  /\ call # Idle
  /\ call' = Idle
  /\ UNCHANGED <<ngDevMode, hasNativeParent, lContainer, viewRefs, dom, parent, status,
                 besidesVcr>>

\* Two containers without views, in a build with or without ngDevMode. The anchor
\* of C is in the DOM; the anchor of D may have no native parent yet.
VcrInit ==
  /\ ngDevMode \in BOOLEAN
  /\ hasNativeParent \in {f \in [Containers -> BOOLEAN] : f["C"]}
  /\ lContainer = [c \in Containers |-> <<>>]
  /\ viewRefs = [c \in Containers |-> <<>>]
  /\ dom = [c \in Containers |-> <<>>]
  /\ parent = [v \in Views |-> NoParent]
  /\ status = [v \in Views |-> "none"]
  /\ call = Idle

VcrNext ==
  \/ \E c \in Containers, index \in IndexArgs : CreateEmbeddedView(c, index)
  \/ \E c \in Containers, v \in Views, index \in IndexArgs : Insert(c, v, index)
  \/ \E c \in Containers, v \in Views, index \in IndexArgs : Move(c, v, index)
  \/ \E c \in Containers, index \in IndexArgs : Remove(c, index)
  \/ \E c \in Containers, index \in IndexArgs : Detach(c, index)
  \/ \E c \in Containers : Clear(c)
  \/ Return


(***************************************************************************)
(* Properties of the view container.                                       *)
(***************************************************************************)
InsertCalls == {"insert", "move", "createEmbeddedView"}

\* Position (1-based) of the first entry of call.ops that is step `op` on
\* container c for view v, 0 when there is none.
OpPos(op, c, v) ==
  LET hits == {i \in 1..Len(call.ops) : call.ops[i] = [op |-> op, c |-> c, v |-> v]}
  IN IF hits = {} THEN 0 ELSE CHOOSE i \in hits : \A k \in hits : i <= k

Happened(op, c, v) == OpPos(op, c, v) # 0

Before(op1, op2, c1, c2, v) ==
  /\ Happened(op1, c1, v)
  /\ Happened(op2, c2, v)
  /\ OpPos(op1, c1, v) < OpPos(op2, c2, v)

Memberships(v) ==
  Count(lContainer["C"], v) + Count(lContainer["D"], v)

\* The index given to the last call is outside the range the container had when
\* the call was made: 0..length for insert and move, 0..length-1 for remove and
\* detach.
OutOfRange ==
  /\ call.op \in {"insert", "move", "remove", "detach"}
  /\ call.index # NoIndex
  /\ \/ call.index[1] < 0
     \/ call.op \in {"insert", "move"} /\ call.index[1] > Len(call.before)
     \/ call.op \in {"remove", "detach"} /\ call.index[1] > Len(call.before) - 1

C2_PhysicalBeforeLogical ==
  (call.op \in InsertCalls /\ call.err = "none") =>
    LET v == call.v[1]
        c == call.c
    IN /\ Before("addViewToContainer", "insertView", c, c, v)
       /\ Before("addViewToContainer", "addToArray", c, c, v)

\* C2 as the code has it: a completed insert makes insertView first, then
\* addViewToContainer (only when the anchor has a parent node), then the splice
\* into VIEW_REFS, all in the one call.
C2_LogicalPhysicalRefs ==
  (call.op \in InsertCalls /\ call.err = "none") =>
    LET v == call.v[1]
        c == call.c
    IN /\ Before("insertView", "addToArray", c, c, v)
       /\ Happened("addViewToContainer", c, v) <=> hasNativeParent[c]
       /\ hasNativeParent[c] =>
            /\ Before("insertView", "addViewToContainer", c, c, v)
            /\ Before("addViewToContainer", "addToArray", c, c, v)

C2_Witness ==
  /\ call.op = "insert"
  /\ call.err = "none"
  /\ hasNativeParent[call.c]
  /\ Happened("addViewToContainer", call.c, call.v[1])
  /\ Len(call.before) >= 1

\* Number of entries of call.ops before position p that are step `op` on c.
StepsBefore(op, c, p) ==
  Cardinality({q \in 1..(p - 1) : call.ops[q].op = op /\ call.ops[q].c = c})

\* C3: when a destroy hook of a removed view runs, the view has already been
\* detached and taken out of VIEW_REFS; the hook, re-entering the container,
\* finds the length already decremented (once for every view detached so far in
\* this call) and indexOf of its own view -1.
C3_RemoveDetachesBeforeDestroy ==
  (call.op \in {"remove", "clear"}) =>
    \A k \in 1..Len(call.hooks) :
      LET h == call.hooks[k]
          p == OpPos("destroyLView", h.c, h.v)
      IN /\ p # 0
         /\ Before("detachView", "destroyLView", h.c, h.c, h.v)
         /\ Before("removeFromArray", "destroyLView", h.c, h.c, h.v)
         /\ h.length = Len(call.before) - StepsBefore("detachView", h.c, p)
         /\ h.refs = Len(call.before) - StepsBefore("removeFromArray", h.c, p)
         /\ h.length = h.refs
         /\ h.indexOf = 0 - 1
         /\ k = 1 => h.length = Len(call.before) - 1

C3_Witness ==
  /\ call.op = "remove"
  /\ call.err = "none"
  /\ Len(call.before) = 3
  /\ Len(call.hooks) >= 2
  /\ call.hooks[1].length = 2

MovedTo(c, v, j) ==
  /\ call.err = "none"
  /\ ArrayIndexOf(viewRefs[c], v) = j
  /\ ArrayIndexOf(lContainer[c], v) = j
  /\ Len(lContainer[c]) = Len(call.before)
  /\ Without(lContainer[c], v) = Without(call.before, v)
  /\ viewRefs[c] = lContainer[c]

\* C5 as stated, in a build with ngDevMode: for a view of the container and any
\* index insert accepts (0..length), the view ends at that index, the length is
\* unchanged, the other views keep their order and the DOM order equals the list
\* order.
C5_MoveToAnyInsertIndex ==
  (ngDevMode /\ call.op \in {"insert", "move"} /\ call.from = call.c /\ call.index # NoIndex
     /\ call.index[1] >= 0 /\ call.index[1] <= Len(call.before)) =>
    /\ MovedTo(call.c, call.v[1], call.index[1])
    /\ dom[call.c] = lContainer[call.c]

\* C5 as the code has it: the same for an index in 0..length-1, the DOM order
\* being that of the list when the container's anchor has a parent node.
C5_MoveWithinContainer ==
  (call.op \in {"insert", "move"} /\ call.from = call.c /\ call.index # NoIndex
     /\ call.index[1] >= 0 /\ call.index[1] <= Len(call.before) - 1) =>
    /\ MovedTo(call.c, call.v[1], call.index[1])
    /\ hasNativeParent[call.c] => dom[call.c] = lContainer[call.c]

C5_Witness ==
  /\ call.op = "insert"
  /\ call.from = call.c
  /\ call.index = <<0>>
  /\ Len(call.before) = 3
  /\ ArrayIndexOf(call.before, call.v[1]) = 2
  /\ hasNativeParent[call.c]
  /\ dom[call.c] = <<call.before[3], call.before[1], call.before[2]>>

\* C6 as stated: after every completed call the DOM sibling order of every
\* container is the order of its view list.
C6_DomEqualsList ==
  (call.op # "none" /\ call.err = "none") =>
    \A c \in Containers : dom[c] = lContainer[c] /\ viewRefs[c] = lContainer[c]

\* C6 as the code has it: after every call VIEW_REFS and the LContainer slots
\* agree, and for a container whose anchor has a parent node the DOM sibling
\* order is the order of the list; the views of a container whose anchor has no
\* parent node are in the list and not in the DOM.
C6_DomEqualsListWhereRendered ==
  \A c \in Containers :
    /\ viewRefs[c] = lContainer[c]
    /\ hasNativeParent[c] => dom[c] = lContainer[c]
    /\ ~hasNativeParent[c] => dom[c] = <<>>

C6_Witness ==
  /\ call.op = "move"
  /\ call.err = "none"
  /\ Len(lContainer["C"]) = 2
  /\ Len(lContainer["D"]) = 1
  /\ lContainer[call.c] # call.before
  /\ dom["C"] = lContainer["C"]

\* C36: after any sequence of insert, move, detach, remove and clear calls on a
\* ViewContainerRef, the view-ref array and the view slots of the LContainer have the
\* same length and order: for every i in 0..length-1, get(i) is the ViewRef of the view
\* in slot i, and indexOf(get(i)) = i.
C36_ViewRefsMatchSlots ==
  \A c \in Containers :
    /\ Len(viewRefs[c]) = length(World, c)
    /\ \A i \in 0..(length(World, c) - 1) :
         /\ get(World, c, i) = <<lContainer[c][i + 1]>>
         /\ indexOfView(World, c, get(World, c, i)[1]) = i

\* A container holds two views in another order after a view was moved within it, and
\* a view was removed before.
C36_Witness ==
  /\ call.op = "move"
  /\ call.err = "none"
  /\ Len(lContainer[call.c]) = 2
  /\ lContainer[call.c] # call.before
  /\ viewRefs[call.c] = lContainer[call.c]
  /\ \E v \in Views : status[v] = "destroyed"

(***************************************************************************)
(* Part 2: provider resolution of the node injector.                       *)
(*                                                                         *)
(* A provider is {provide: token, useValue: value, multi}; for such a      *)
(* provider registerDestroyHooksIfSupported registers nothing. The factory *)
(* function of a provider is modelled by the value it returns.             *)
(***************************************************************************)
\* TNodeProviderIndexes.CptViewProvidersCountShifter: 1 << 20; the start index is
\* providerIndexes & ProvidersStartIndexMask, the view-provider count is
\* providerIndexes >> CptViewProvidersCountShift.
CptViewProvidersCountShifter == 1048576

ProvidersStartIndex(pi) == pi % CptViewProvidersCountShifter

CptViewProvidersCount(pi) == pi \div CptViewProvidersCountShifter

\* The state resolveProvider works on.
DiState ==
  [tData |-> tData, blueprint |-> blueprint, directiveStart |-> directiveStart,
   directiveEnd |-> directiveEnd, providerIndexes |-> providerIndexes]

\* A slot of tView.blueprint that is not an injectable of this node.
NoFactory ==
  [factory |-> "none", canSeeViewProviders |-> FALSE, value |-> <<>>, multi |-> <<>>,
   componentProviders |-> 0, index |-> 0 - 1, providerFactory |-> <<>>]

\* new NodeInjectorFactory(factory, isViewProvider, directiveInject).
NodeInjectorFactory(factory, isViewProvider, value) ==
  [NoFactory EXCEPT !.factory = factory, !.canSeeViewProviders = isViewProvider,
                    !.value = value]

\* A mutant of indexOf: the last slot of the range is not looked at.
IndexOfSkipsLast(item, arr, begin, end) ==
  LET hits == {i \in begin..(end - 2) : arr[i + 1] = item}
  IN IF hits = {} THEN 0 - 1 ELSE CHOOSE i \in hits : \A k \in hits : i <= k

\* indexOf(item, arr, begin, end): the index of item in arr[begin..end-1], or -1.
indexOf(item, arr, begin, end) ==
  LET hits == {i \in begin..(end - 1) : arr[i + 1] = item}
  IN IF hits = {} THEN 0 - 1 ELSE CHOOSE i \in hits : \A k \in hits : i <= k

\* A mutant of multiFactoryAdd: the component's providers are not counted.
MultiFactoryAddUncounted(multiFactory, factory, isComponentProvider) ==
  [multiFactory EXCEPT !.multi = Append(@, factory)]

\* multiFactoryAdd(multiFactory, factory, isComponentProvider): the factory object
\* after the call.
multiFactoryAdd(multiFactory, factory, isComponentProvider) ==
  [multiFactory EXCEPT
     !.componentProviders = IF isComponentProvider THEN @ + 1 ELSE @,
     !.multi = Append(@, factory)]

\* multiFactory(factoryFn, index, isViewProvider, isComponent, f).
multiFactory(factoryFn, index, isViewProvider, isComponent, f) ==
  multiFactoryAdd(
    [NodeInjectorFactory(factoryFn, isViewProvider, <<>>) EXCEPT !.index = index],
    f, isComponent /\ ~isViewProvider)

\* The pushes that publish a new slot: tInjectables.push(token), directiveStart++,
\* directiveEnd++, the view-provider count for a view provider,
\* lInjectablesBlueprint.push(factory) and lView.push(factory).
PushInjectable(st, token, factory, isViewProvider) ==
  [st EXCEPT !.tData = Append(@, token),
             !.directiveStart = @ + 1,
             !.directiveEnd = @ + 1,
             !.providerIndexes = IF isViewProvider THEN @ + CptViewProvidersCountShifter ELSE @,
             !.blueprint = Append(@, factory)]

\* resolveProvider for a provider that is not an array.
resolveProvider(st, provider, isComponent, isViewProvider) ==
  LET token == provider.provide
      providerFactory == provider.useValue
      beginIndex == ProvidersStartIndex(st.providerIndexes)
      endIndex == st.directiveStart
      cptViewProvidersCount == CptViewProvidersCount(st.providerIndexes)
  IN IF ~provider.multi
     THEN \* Single provider case: the factory is created and pushed immediately
          LET factory == NodeInjectorFactory("single", isViewProvider, <<providerFactory>>)
              existingFactoryIndex ==
                indexOf(token, st.tData,
                        IF isViewProvider THEN beginIndex
                        ELSE beginIndex + cptViewProvidersCount,
                        endIndex)
          IN IF existingFactoryIndex = 0 - 1
             THEN PushInjectable(st, token, factory, isViewProvider)
             ELSE [st EXCEPT !.blueprint[existingFactoryIndex + 1] = factory]
     ELSE \* Multi provider case
          LET existingProvidersFactoryIndex ==
                indexOf(token, st.tData, beginIndex + cptViewProvidersCount, endIndex)
              existingViewProvidersFactoryIndex ==
                indexOf(token, st.tData, beginIndex, beginIndex + cptViewProvidersCount)
              doesProvidersFactoryExist == existingProvidersFactoryIndex >= 0
              doesViewProvidersFactoryExist == existingViewProvidersFactoryIndex >= 0
              resolved ==
                IF \/ isViewProvider /\ ~doesViewProvidersFactoryExist
                   \/ ~isViewProvider /\ ~doesProvidersFactoryExist
                THEN \* Cases 1.a and 2.a
                     LET factory ==
                           multiFactory(
                             IF isViewProvider THEN "multiViewProvidersFactoryResolver"
                             ELSE "multiProvidersFactoryResolver",
                             Len(st.blueprint), isViewProvider, isComponent, providerFactory)
                         linked ==
                           IF ~isViewProvider /\ doesViewProvidersFactoryExist
                           THEN [st EXCEPT
                                   !.blueprint[existingViewProvidersFactoryIndex + 1].providerFactory =
                                     <<factory.index>>]
                           ELSE st
                     IN PushInjectable(linked, token, factory, isViewProvider)
                ELSE \* Cases 1.b and 2.b
                     LET at == IF isViewProvider THEN existingViewProvidersFactoryIndex
                               ELSE existingProvidersFactoryIndex
                     IN [st EXCEPT !.blueprint[at + 1] =
                           multiFactoryAdd(@, providerFactory, ~isViewProvider /\ isComponent)]
          IN IF ~isViewProvider /\ isComponent /\ doesViewProvidersFactoryExist
             THEN [resolved EXCEPT
                     !.blueprint[existingViewProvidersFactoryIndex + 1].componentProviders = @ + 1]
             ELSE resolved

RECURSIVE resolveProviderArray(_, _, _, _)
\* resolveProvider for an array: "Recursively call resolveProvider" on each entry.
resolveProviderArray(st, providers, isComponent, isViewProvider) ==
  IF providers = <<>> THEN st
  ELSE resolveProviderArray(
         resolveProvider(st, Head(providers), isComponent, isViewProvider),
         Tail(providers), isComponent, isViewProvider)

\* A mutant of providersResolver: the providers are processed before the view
\* providers.
ProvidersBeforeViewProviders(st, isComponent, providers, viewProviders) ==
  IF firstCreatePass
  THEN resolveProviderArray(
         resolveProviderArray(st, providers, isComponent, FALSE),
         viewProviders, isComponent, TRUE)
  ELSE st

\* providersResolver(def, providers, viewProviders).
providersResolver(st, isComponent, providers, viewProviders) ==
  IF firstCreatePass
  THEN resolveProviderArray(
         resolveProviderArray(st, viewProviders, isComponent, TRUE),
         providers, isComponent, FALSE)
  ELSE st

\* multiResolve(factories, result): the values of the factories, pushed onto result.
multiResolve(factories, result) == result \o factories

\* multiProvidersFactoryResolver, with `this` the factory.
multiProvidersFactoryResolver(this) == multiResolve(this.multi, <<>>)

\* A mutant of multiViewProvidersFactoryResolver: the view providers' values come
\* first, all the providers' values after them.
MultiViewProvidersFirst(st, this) ==
  IF this.providerFactory # <<>>
  THEN multiResolve(this.multi, <<>>)
         \o multiProvidersFactoryResolver(st.blueprint[this.providerFactory[1] + 1])
  ELSE multiResolve(this.multi, <<>>)

\* multiViewProvidersFactoryResolver, with `this` the factory: the component's
\* multi providers, then the view providers, then the other directives' multi
\* providers. getNodeInjectable(lView, tView, this.providerFactory.index, tNode)
\* resolves the linked provider factory.
multiViewProvidersFactoryResolver(st, this) ==
  LET factories == this.multi
  IN IF this.providerFactory # <<>>
     THEN LET linked == st.blueprint[this.providerFactory[1] + 1]
              componentCount == linked.componentProviders
              multiProviders == multiProvidersFactoryResolver(st.blueprint[linked.index + 1])
          IN multiResolve(factories, SubSeq(multiProviders, 1, componentCount))
               \o SubSeq(multiProviders, componentCount + 1, Len(multiProviders))
     ELSE multiResolve(factories, <<>>)

\* di.ts getNodeInjectable(lView, tView, index, tNode): the value of the slot,
\* made by the slot's factory.
getNodeInjectable(st, index) ==
  LET f == st.blueprint[index + 1]
  IN CASE f.factory = "single" -> f.value
       [] f.factory = "multiProvidersFactoryResolver" -> <<multiProvidersFactoryResolver(f)>>
       [] f.factory = "multiViewProvidersFactoryResolver" ->
            <<multiViewProvidersFactoryResolver(st, f)>>
       [] OTHER -> <<>>

\* di.ts locateDirectiveOrProvider(tNode, tView, token, canAccessViewProviders):
\* the first injectable slot with the token, starting after the view providers
\* for a lookup that cannot see them.
locateDirectiveOrProvider(st, token, canAccessViewProviders) ==
  LET injectablesStart == ProvidersStartIndex(st.providerIndexes)
      startingIndex == IF canAccessViewProviders THEN injectablesStart
                       ELSE injectablesStart + CptViewProvidersCount(st.providerIndexes)
  IN indexOf(token, st.tData, startingIndex, st.directiveStart)

(***************************************************************************)
(* Provider resolution as actions.                                         *)
(***************************************************************************)
\* The provider arrays a definition can declare: at most MaxProviders tokens; the
\* k-th provider of a block returns a value that names the definition, the block
\* and k.
TokenLists == UNION {[1..n -> Tokens] : n \in 0..MaxProviders}

ProvidersOf(tokens, def, block) ==
  [k \in 1..Len(tokens) |->
     [provide |-> tokens[k], multi |-> tokens[k] \in MultiTokens,
      useValue |-> <<def, block, k>>]]

Registered(providers, isComponent, isViewProvider) ==
  [k \in 1..Len(providers) |->
     [provide |-> providers[k].provide, useValue |-> providers[k].useValue,
      isComponent |-> isComponent, isViewProvider |-> isViewProvider]]

\* The tokens the definition number def declared in a block when it was resolved
\* in the first creation pass.
DeclaredTokens(def, isViewProvider) ==
  LET mine == SelectSeq(registrations,
                        LAMBDA r : r.useValue[1] = def /\ r.isViewProvider = isViewProvider)
  IN [k \in 1..Len(mine) |-> mine[k].provide]

\* The providers feature of a definition runs providersResolver. In the first
\* creation pass the definitions of the node come one after the other: first the
\* component, if the node has one, then the other directives, which have no view
\* providers; defsResolved counts them. In a later pass one of these definitions
\* comes again, with the providers it declared.
ProvidersResolver(isComponent, viewTokens, tokens) ==
  /\ ~isComponent => viewTokens = <<>>
  /\ firstCreatePass =>
       /\ defsResolved < MaxDirectives + 1
       /\ isComponent => defsResolved = 0
  /\ ~firstCreatePass =>
       \E def \in 0..(defsResolved - 1) :
         /\ isComponent => def = 0
         /\ viewTokens = DeclaredTokens(def, TRUE)
         /\ tokens = DeclaredTokens(def, FALSE)
  /\ LET providers == ProvidersOf(tokens, defsResolved, "providers")
         viewProviders == ProvidersOf(viewTokens, defsResolved, "viewProviders")
         st == providersResolver(DiState, isComponent, providers, viewProviders)
     IN /\ tData' = st.tData
        /\ blueprint' = st.blueprint
        /\ directiveStart' = st.directiveStart
        /\ directiveEnd' = st.directiveEnd
        /\ providerIndexes' = st.providerIndexes
        /\ registrations' =
             IF firstCreatePass
             THEN registrations \o Registered(viewProviders, isComponent, TRUE)
                                \o Registered(providers, isComponent, FALSE)
             ELSE registrations
  /\ defsResolved' = IF firstCreatePass THEN defsResolved + 1 ELSE defsResolved
  /\ UNCHANGED <<firstCreatePass, injected, besidesDi>>

\* The first creation pass of the view ends.
EndCreatePass ==
  /\ firstCreatePass
  /\ firstCreatePass' = FALSE
  /\ UNCHANGED <<tData, blueprint, directiveStart, directiveEnd, providerIndexes,
                 defsResolved, registrations, injected, besidesDi>>

\* A token is injected on the node, from the component's view (which can see the
\* view providers) or from elsewhere. Injection happens when the node's
\* directives are instantiated or later, after all of them were resolved.
Inject(token, canAccessViewProviders) ==
  /\ ~firstCreatePass
  /\ LET index == locateDirectiveOrProvider(DiState, token, canAccessViewProviders)
     IN injected' = [token |-> token, canAccessViewProviders |-> canAccessViewProviders,
                     index |-> index,
                     value |-> IF index = 0 - 1 THEN <<>> ELSE getNodeInjectable(DiState, index)]
  /\ UNCHANGED <<firstCreatePass, tData, blueprint, directiveStart, directiveEnd,
                 providerIndexes, defsResolved, registrations, besidesDi>>

NotInjected == [token |-> "", canAccessViewProviders |-> FALSE, index |-> 0 - 1, value |-> <<>>]

\* A node in the first creation pass of its view, before any of its definitions
\* is resolved: tView.data holds `start` earlier slots, the node's injectables
\* start there and its directives too.
DiStart(start) ==
  /\ firstCreatePass = TRUE
  /\ tData = [i \in 1..start |-> "prior"]
  /\ blueprint = [i \in 1..start |-> NoFactory]
  /\ directiveStart = start
  /\ directiveEnd = start
  /\ providerIndexes = start
  /\ defsResolved = 0
  /\ registrations = <<>>
  /\ injected = NotInjected

DiNext ==
  \/ \E isComponent \in BOOLEAN, viewTokens \in TokenLists, tokens \in TokenLists :
       ProvidersResolver(isComponent, viewTokens, tokens)
  \/ EndCreatePass
  \/ \E token \in Tokens, canAccessViewProviders \in BOOLEAN :
       Inject(token, canAccessViewProviders)

(***************************************************************************)
(* Part 3: listener registration (the listener instruction).               *)
(*                                                                         *)
(* tView.cleanup and lView[CLEANUP] are flat arrays of strings, numbers    *)
(* and functions; an entry is a record that says which of these it is. A   *)
(* listener function is named by a number; wrapListener(f) is named as f.   *)
(***************************************************************************)
Handlers == 1..(MaxInstructions * MaxLViews)

Str(s) == [type |-> "string", s |-> s, n |-> 0]

Num(n) == [type |-> "number", s |-> "", n |-> n]

Fn(kind, n) == [type |-> "function", s |-> kind, n |-> n]

\* The state listenerInternal works on.
ListenerState ==
  [tCleanup |-> tCleanup, lCleanup |-> lCleanup, listenCalls |-> listenCalls,
   subscriptions |-> subscriptions, nextListenerFn |-> nextListenerFn,
   lastListenerFn |-> lastListenerFn, listenerErr |-> listenerErr]

RECURSIVE findExistingListenerFrom(_, _, _, _)
\* The loop of findExistingListener from position i (0-based) of tView.cleanup:
\* <<entry>> of lView[CLEANUP] or <<>> for null.
findExistingListenerFrom(ls, eventName, tNodeIdx, i) ==
  IF ~(i < Len(ls.tCleanup) - 1) THEN <<>>
  ELSE LET cleanupEventName == ls.tCleanup[i + 1]
       IN IF cleanupEventName = Str(eventName) /\ ls.tCleanup[i + 2] = Num(tNodeIdx)
          THEN LET listenerIdxInLCleanup == ls.tCleanup[i + 3].n
               IN IF Len(ls.lCleanup) > listenerIdxInLCleanup
                  THEN <<ls.lCleanup[listenerIdxInLCleanup + 1]>>
                  ELSE <<>>
          ELSE findExistingListenerFrom(ls, eventName, tNodeIdx,
                 IF cleanupEventName.type = "string" THEN i + 4 ELSE i + 2)

\* findExistingListener(tView, lView, eventName, tNodeIdx).
findExistingListener(ls, eventName, tNodeIdx) ==
  findExistingListenerFrom(ls, eventName, tNodeIdx, 0)

\* listenerInternal, first part: the native listener, or the chaining to the
\* one that exists. Gives the state and processOutputs.
nativeListener(ls, node, eventName, listenerFn, eventTargetResolver) ==
  IF tNode[node].isElement \/ eventTargetResolver
  THEN LET lCleanupIndex == Len(ls.lCleanup)
           idxOrTargetGetter == IF eventTargetResolver THEN Fn("targetGetter", node)
                                ELSE Num(node)
           existingListener ==
             IF ~eventTargetResolver /\ tNode[node].isDirectiveHost
             THEN findExistingListener(ls, eventName, node)
             ELSE <<>>
       IN IF existingListener # <<>>
          THEN IF existingListener[1].type # "function" \/ existingListener[1].s # "listener"
               THEN [ls |-> [ls EXCEPT !.listenerErr = TRUE], processOutputs |-> FALSE]
               ELSE LET existing == existingListener[1].n
                        last == IF ls.lastListenerFn[existing] # 0
                                THEN ls.lastListenerFn[existing] ELSE existing
                    IN [ls |-> [ls EXCEPT !.nextListenerFn[last] = listenerFn,
                                          !.lastListenerFn[existing] = listenerFn],
                        processOutputs |-> FALSE]
          ELSE [ls |-> [ls EXCEPT
                  !.listenCalls = Append(@, [lView |-> lViewId, node |-> node,
                                             eventName |-> eventName,
                                             global |-> eventTargetResolver,
                                             listenerFn |-> listenerFn]),
                  !.lCleanup = @ \o <<Fn("listener", listenerFn), Fn("cleanupFn", listenerFn)>>,
                  !.tCleanup = IF creationPass
                               THEN @ \o <<Str(eventName), idxOrTargetGetter,
                                           Num(lCleanupIndex), Num(lCleanupIndex + 1)>>
                               ELSE @],
                processOutputs |-> TRUE]
  ELSE [ls |-> ls, processOutputs |-> TRUE]

\* listenerInternal, second part: "subscribe to directive outputs". A node has
\* at most one directive output per event name.
subscribeToOutputs(ls, node, eventName, listenerFn) ==
  IF eventName \in tNode[node].outputs
  THEN LET idx == Len(ls.lCleanup)
       IN [ls EXCEPT
             !.subscriptions = Append(@, [lView |-> lViewId, node |-> node,
                                          eventName |-> eventName, listenerFn |-> listenerFn]),
             !.lCleanup = @ \o <<Fn("listener", listenerFn), Fn("subscription", listenerFn)>>,
             !.tCleanup = IF creationPass
                          THEN @ \o <<Str(eventName), Num(node), Num(idx), Num(0 - (idx + 1))>>
                          ELSE @]
  ELSE ls

\* listenerInternal(tView, lView, renderer, tNode, eventName, listenerFn,
\* eventTargetResolver).
listenerInternal(ls, node, eventName, listenerFn, eventTargetResolver) ==
  LET native == nativeListener(ls, node, eventName, listenerFn, eventTargetResolver)
  IN IF native.processOutputs
     THEN subscribeToOutputs(native.ls, node, eventName, listenerFn)
     ELSE native.ls

\* A cleanup that is no listener (a directive's or a query's destroy hook):
\* a 2-element entry of tView.cleanup, one entry of lView[CLEANUP].
storeCleanup(ls) ==
  [ls EXCEPT !.lCleanup = Append(@, Fn("context", 0)),
             !.tCleanup = IF creationPass
                          THEN @ \o <<Fn("cleanupFn", 0), Num(Len(ls.lCleanup))>>
                          ELSE @]

(***************************************************************************)
(* Listener registration as actions. The first LView runs the template     *)
(* function in the first creation pass; every later LView runs the same     *)
(* instructions in the same order.                                         *)
(***************************************************************************)
ListenerInstruction(node, eventName, eventTargetResolver) ==
  [op |-> "listener", node |-> node, eventName |-> eventName,
   eventTargetResolver |-> eventTargetResolver]

CleanupInstruction ==
  [op |-> "cleanup", node |-> 0, eventName |-> "", eventTargetResolver |-> FALSE]

\* The instruction is the next one of the template function. In the first pass
\* any instruction can come next, but a node without directives has no two
\* listeners for one event and target: a template has no duplicate attributes.
IsNextInstruction(instruction) ==
  IF creationPass
  THEN /\ Len(template) < MaxInstructions
       /\ (instruction.op = "listener" /\ ~tNode[instruction.node].isDirectiveHost)
            => \A k \in 1..Len(template) : template[k] # instruction
  ELSE /\ pc < Len(template)
       /\ template[pc + 1] = instruction

RunInstruction(ls, instruction) ==
  /\ IsNextInstruction(instruction)
  /\ dispatch = <<>>
  /\ tCleanup' = ls.tCleanup
  /\ lCleanup' = ls.lCleanup
  /\ listenCalls' = ls.listenCalls
  /\ subscriptions' = ls.subscriptions
  /\ nextListenerFn' = ls.nextListenerFn
  /\ lastListenerFn' = ls.lastListenerFn
  /\ listenerErr' = ls.listenerErr
  /\ template' = IF creationPass THEN Append(template, instruction) ELSE template
  /\ pc' = pc + 1
  /\ UNCHANGED <<tNode, creationPass, lViewId, dispatch, besidesListener>>

\* The listener being registered is a new function: the template function makes
\* one closure per instruction and LView.
NewListenerFn == (lViewId - 1) * MaxInstructions + pc + 1

\* The listener instruction.
Listener(node, eventName, eventTargetResolver) ==
  RunInstruction(
    listenerInternal(ListenerState, node, eventName, NewListenerFn, eventTargetResolver),
    ListenerInstruction(node, eventName, eventTargetResolver))

\* A directive or a query stores its destroy hook.
StoreCleanup == RunInstruction(storeCleanup(ListenerState), CleanupInstruction)

\* The LView is complete; the next one is made from the same TView, no longer
\* in the first creation pass.
NextLView ==
  /\ lViewId < MaxLViews
  /\ template # <<>>
  /\ pc = Len(template)
  /\ lViewId' = lViewId + 1
  /\ creationPass' = FALSE
  /\ pc' = 0
  /\ lCleanup' = <<>>
  /\ dispatch' = <<>>
  /\ UNCHANGED <<tNode, template, tCleanup, listenCalls, subscriptions, nextListenerFn,
                 lastListenerFn, listenerErr, besidesListener>>

\* What a handler does when called: it returns nothing, returns false, or throws.
HandlerOutcomes == {"undefined", "false", "throws"}

\* executeListenerWithErrorHandling: false for a handler that returns false, and for
\* one that throws (the error goes to handleError).
executeListenerWithErrorHandling(outcome) ==
  IF outcome = "throws" THEN FALSE ELSE outcome # "false"

RECURSIVE invokeNextListeners(_, _, _, _)
\* The while loop of the wrapper over __ngNextListenerFn__.
invokeNextListeners(nextFn, links, outcomes, sofar) ==
  IF nextFn = 0 THEN sofar
  ELSE invokeNextListeners(
         links[nextFn], links, outcomes,
         [invoked |-> Append(sofar.invoked, nextFn),
          result |-> executeListenerWithErrorHandling(outcomes[nextFn]) /\ sofar.result])

\* A wrapper that goes on to the next listener only while the result is true.
WrapListenerShortCircuit(listenerFn, links, outcomes) ==
  LET first == [invoked |-> <<listenerFn>>,
                result |-> executeListenerWithErrorHandling(outcomes[listenerFn])]
  IN IF first.result THEN invokeNextListeners(links[listenerFn], links, outcomes, first)
     ELSE first

\* The function wrapListener returns, called with an event: the handlers invoked, in
\* order, and the result.
wrapListener(listenerFn, links, outcomes) ==
  invokeNextListeners(
    links[listenerFn], links, outcomes,
    [invoked |-> <<listenerFn>>,
     result |-> executeListenerWithErrorHandling(outcomes[listenerFn])])

\* The listener functions linked behind h, h included.
Linked(h) ==
  LET RECURSIVE Behind(_, _)
      Behind(g, fuel) == IF g = 0 \/ fuel = 0 THEN {} ELSE {g} \cup Behind(nextListenerFn[g], fuel - 1)
  IN Behind(h, Cardinality(Handlers))

\* A native event fires on a target that the LView listens on, its template function
\* having returned (no instruction runs after an event): the renderer calls the function
\* given to renderer.listen.  The handlers keep no state, so one event per LView shows
\* what every event does.
NativeEvent ==
  /\ template # <<>>
  /\ pc = Len(template)
  /\ dispatch = <<>>
  /\ \E i \in DOMAIN listenCalls :
       /\ listenCalls[i].lView = lViewId
       /\ \E linked \in [Linked(listenCalls[i].listenerFn) -> HandlerOutcomes] :
            LET outcomes == [h \in Handlers |->
                               IF h \in DOMAIN linked THEN linked[h] ELSE "undefined"]
                called == wrapListener(listenCalls[i].listenerFn, nextListenerFn, outcomes)
            IN dispatch' = <<[listenerFn |-> listenCalls[i].listenerFn,
                              outcomes |-> outcomes,
                              invoked |-> called.invoked,
                              result |-> called.result]>>
  /\ UNCHANGED <<tNode, creationPass, template, lViewId, pc, tCleanup, lCleanup, listenCalls,
                 subscriptions, nextListenerFn, lastListenerFn, listenerErr, besidesListener>>

\* The kinds of node: an element or a container (ng-template), with directives
\* or without; only a node with directives has outputs.
NodeKinds ==
  {k \in [isElement : BOOLEAN, isDirectiveHost : BOOLEAN, outputs : SUBSET {"click"}] :
     ~k.isDirectiveHost => k.outputs = {}}

\* A view before its template function has run.
ListenerStart(nodes) ==
  /\ tNode = nodes
  /\ creationPass = TRUE
  /\ template = <<>>
  /\ lViewId = 1
  /\ pc = 0
  /\ tCleanup = <<>>
  /\ lCleanup = <<>>
  /\ listenCalls = <<>>
  /\ subscriptions = <<>>
  /\ nextListenerFn = [h \in Handlers |-> 0]
  /\ lastListenerFn = [h \in Handlers |-> 0]
  /\ listenerErr = FALSE
  /\ dispatch = <<>>

\* Node 1 is an element with directives; node 2 is of any kind.
ListenerInit ==
  \E nodes \in [Nodes -> NodeKinds] :
    /\ nodes[1].isElement
    /\ nodes[1].isDirectiveHost
    /\ ListenerStart(nodes)

ListenerNext ==
  \/ \E node \in Nodes, eventName \in EventNames, eventTargetResolver \in BOOLEAN :
       Listener(node, eventName, eventTargetResolver)
  \/ StoreCleanup
  \/ NextLView
  \/ NativeEvent

(***************************************************************************)
(* Part 4: static analysis of a decorated class (ngtsc annotations).       *)
(*                                                                         *)
(* An expression is a record; a null is the empty sequence and a value     *)
(* that may be null is a sequence of at most one element.                  *)
(***************************************************************************)
\* new WrappedNodeExpr(node), with the node named by its text.
WrappedNodeExpr(text) == [expr |-> "WrappedNodeExpr", moduleName |-> "", name |-> text]

\* new ExternalExpr({moduleName, name}).
ExternalExpr(moduleName, name) == [expr |-> "ExternalExpr", moduleName |-> moduleName, name |-> name]

\* ValueUnavailableKind.
ValueUnavailableKinds ==
  {"MISSING_TYPE", "NO_VALUE_DECLARATION", "TYPE_ONLY_IMPORT", "UNKNOWN_REFERENCE",
   "NAMESPACE", "UNSUPPORTED"}

\* TypeValueReference: a local class, an imported one, or an unavailable value
\* with its reason.
LocalTypeValueReference(name) ==
  [kind |-> "LOCAL", moduleName |-> "", name |-> name, reason |-> ""]

ImportedTypeValueReference(moduleName, name) ==
  [kind |-> "IMPORTED", moduleName |-> moduleName, name |-> name, reason |-> ""]

UnavailableTypeValueReference(reason) ==
  [kind |-> "UNAVAILABLE", moduleName |-> "", name |-> "", reason |-> reason]

\* util.ts valueReferenceToExpression: null for an unavailable value, an
\* ExternalExpr for an imported one, a WrappedNodeExpr for a local one.
valueReferenceToExpression(valueRef) ==
  CASE valueRef.kind = "UNAVAILABLE" -> <<>>
    [] valueRef.kind = "IMPORTED" -> <<ExternalExpr(valueRef.moduleName, valueRef.name)>>
    [] OTHER -> <<WrappedNodeExpr(valueRef.name)>>

\* A decorator as the reflection host gives it: its name in the source, the
\* import it comes from (name and module; <<>> if it is not imported) and its
\* arguments (argsNull: the decorator is not called).
Decorator(name, import, argsNull, args) ==
  [name |-> name, import |-> import, argsNull |-> argsNull, args |-> args]

CoreDecorator(name, args) ==
  Decorator(name, <<[name |-> name, from |-> "@angular/core"]>>, FALSE, args)

\* util.ts isAngularCore(decorator).
isAngularCore(dec) == dec.import # <<>> /\ dec.import[1].from = "@angular/core"

\* What the forEach over a parameter's decorators has computed so far; thrown
\* holds the FatalDiagnosticError that ended it.
NoDecoratorSeen(token) ==
  [token |-> token, attributeNameType |-> <<>>, optional |-> FALSE, self |-> FALSE,
   skipSelf |-> FALSE, host |-> FALSE, thrown |-> <<>>]

FatalDiagnosticError(code, node, message) == [code |-> code, node |-> node, message |-> message]

\* A mutant of applyDecorator: @Inject gives the token only when the type gave
\* none.
ApplyDecoratorKeepsTypeToken(acc, dec) ==
  LET name == IF isCore \/ dec.import = <<>> THEN dec.name ELSE dec.import[1].name
  IN CASE name \in {"Inject", "Attribute"} ->
            IF dec.argsNull \/ Len(dec.args) # 1
            THEN [acc EXCEPT !.thrown = <<FatalDiagnosticError("DECORATOR_ARITY_WRONG", dec.name, "")>>]
            ELSE IF acc.token = <<>>
                 THEN [acc EXCEPT !.token = <<WrappedNodeExpr(dec.args[1])>>]
                 ELSE acc
       [] name = "Optional" -> [acc EXCEPT !.optional = TRUE]
       [] name = "SkipSelf" -> [acc EXCEPT !.skipSelf = TRUE]
       [] name = "Self" -> [acc EXCEPT !.self = TRUE]
       [] name = "Host" -> [acc EXCEPT !.host = TRUE]
       [] OTHER -> [acc EXCEPT !.thrown = <<FatalDiagnosticError("DECORATOR_UNEXPECTED", dec.name, "")>>]

\* The body of the forEach over the decorators of a parameter (di.ts:47-83).
applyDecorator(acc, dec) ==
  LET name == IF isCore \/ dec.import = <<>> THEN dec.name ELSE dec.import[1].name
  IN CASE name = "Inject" ->
            IF dec.argsNull \/ Len(dec.args) # 1
            THEN [acc EXCEPT !.thrown =
                    <<FatalDiagnosticError("DECORATOR_ARITY_WRONG", dec.name,
                                           "Unexpected number of arguments to @Inject().")>>]
            ELSE [acc EXCEPT !.token = <<WrappedNodeExpr(dec.args[1])>>]
       [] name = "Optional" -> [acc EXCEPT !.optional = TRUE]
       [] name = "SkipSelf" -> [acc EXCEPT !.skipSelf = TRUE]
       [] name = "Self" -> [acc EXCEPT !.self = TRUE]
       [] name = "Host" -> [acc EXCEPT !.host = TRUE]
       [] name = "Attribute" ->
            IF dec.argsNull \/ Len(dec.args) # 1
            THEN [acc EXCEPT !.thrown =
                    <<FatalDiagnosticError("DECORATOR_ARITY_WRONG", dec.name,
                                           "Unexpected number of arguments to @Attribute().")>>]
            ELSE [acc EXCEPT !.token = <<WrappedNodeExpr(dec.args[1])>>,
                             !.attributeNameType = <<dec.args[1]>>]
       [] OTHER -> [acc EXCEPT !.thrown =
                      <<FatalDiagnosticError("DECORATOR_UNEXPECTED", dec.name,
                                             <<"Unexpected decorator", name, "on parameter.">>)>>]

RECURSIVE applyDecorators(_, _)
\* (param.decorators || []).filter(dec => isCore || isAngularCore(dec)).forEach(...)
applyDecorators(acc, decorators) ==
  IF decorators = <<>> \/ acc.thrown # <<>> THEN acc
  ELSE applyDecorators(
         IF isCore \/ isAngularCore(Head(decorators))
         THEN applyDecorator(acc, Head(decorators))
         ELSE acc,
         Tail(decorators))

\* What getConstructorDependencies returns: null, {deps}, {deps: null, errors},
\* or the error it throws.
ConstructorDeps(kind, deps, errors, thrown) ==
  [kind |-> kind, deps |-> deps, errors |-> errors, thrown |-> thrown]

RECURSIVE forEachCtorParam(_, _, _)
\* ctorParams.forEach((param, idx) => ...) from index idx on, with the deps and
\* errors collected so far in out.
forEachCtorParam(ctorParams, idx, out) ==
  IF idx >= Len(ctorParams) \/ out.thrown # <<>> THEN out
  ELSE LET param == ctorParams[idx + 1]
           seen == applyDecorators(
                     NoDecoratorSeen(valueReferenceToExpression(param.typeValueReference)),
                     param.decorators)
       IN forEachCtorParam(ctorParams, idx + 1,
            IF seen.thrown # <<>> THEN [out EXCEPT !.thrown = seen.thrown]
            ELSE IF seen.token = <<>>
            THEN [out EXCEPT !.errors =
                    Append(@, [index |-> idx, param |-> param.name,
                               reason |-> param.typeValueReference.reason])]
            ELSE [out EXCEPT !.deps =
                    Append(@, [token |-> seen.token[1],
                               attributeNameType |-> seen.attributeNameType,
                               optional |-> seen.optional, self |-> seen.self,
                               skipSelf |-> seen.skipSelf, host |-> seen.host])])

\* A mutant of getConstructorDependencies: the deps collected are returned
\* along with the errors.
GetConstructorDependenciesKeepsDeps(cls) ==
  IF cls.ctorParams = <<>> /\ cls.hasBaseClass
  THEN ConstructorDeps("null", <<>>, <<>>, <<>>)
  ELSE LET ctorParams == IF cls.ctorParams = <<>> THEN <<>> ELSE cls.ctorParams[1]
           out == forEachCtorParam(ctorParams, 0, ConstructorDeps("", <<>>, <<>>, <<>>))
       IN IF out.thrown # <<>> THEN ConstructorDeps("throw", <<>>, <<>>, out.thrown)
          ELSE IF Len(out.errors) = 0 THEN ConstructorDeps("deps", out.deps, <<>>, <<>>)
          ELSE ConstructorDeps("errors", out.deps, out.errors, <<>>)

\* getConstructorDependencies(clazz, reflector, isCore). clazz.ctorParams is
\* what reflector.getConstructorParameters gives: <<>> for null, else <<params>>.
getConstructorDependencies(cls) ==
  IF cls.ctorParams = <<>> /\ cls.hasBaseClass
  THEN ConstructorDeps("null", <<>>, <<>>, <<>>)
  ELSE LET ctorParams == IF cls.ctorParams = <<>> THEN <<>> ELSE cls.ctorParams[1]
           out == forEachCtorParam(ctorParams, 0, ConstructorDeps("", <<>>, <<>>, <<>>))
       IN IF out.thrown # <<>> THEN ConstructorDeps("throw", <<>>, <<>>, out.thrown)
          ELSE IF Len(out.errors) = 0 THEN ConstructorDeps("deps", out.deps, <<>>, <<>>)
          ELSE ConstructorDeps("errors", <<>>, out.errors, <<>>)

(***************************************************************************)
(* Directive metadata (annotations/directive/src/shared.ts).               *)
(*                                                                         *)
(* A string that the compiler takes apart is the sequence of its           *)
(* characters. An object with string keys is a function on its keys.       *)
(***************************************************************************)
\* A result that is an error thrown.
Thrown(error) == [kind |-> "throw", thrown |-> <<error>>]

\* createValueHasWrongTypeError(node, value, messageText).
createValueHasWrongTypeError(node, messageText) ==
  FatalDiagnosticError("VALUE_HAS_WRONG_TYPE", node, messageText)

RECURSIVE split(_)
\* str.split(':')
split(str) ==
  IF \A i \in 1..Len(str) : str[i] # ":" THEN <<str>>
  ELSE LET i == CHOOSE k \in 1..Len(str) : str[k] = ":" /\ \A j \in 1..(k - 1) : str[j] # ":"
       IN <<SubSeq(str, 1, i - 1)>> \o split(SubSeq(str, i + 1, Len(str)))

RECURSIVE trim(_)
\* str.trim()
trim(str) ==
  IF str = <<>> THEN str
  ELSE IF Head(str) = " " THEN trim(Tail(str))
  ELSE IF str[Len(str)] = " " THEN trim(SubSeq(str, 1, Len(str) - 1))
  ELSE str

\* The value of a field in a mapping object: a property name, or for an @Input
\* with argument the pair [publicName, internalName].
NameValue(property) == [publicName |-> property, internalName |-> <<>>]

PairValue(publicName, internalName) ==
  [publicName |-> publicName, internalName |-> <<internalName>>]

\* {} and results[field] = value.
EMPTY_OBJECT == [field \in {} |-> NameValue(<<>>)]

Put(results, field, value) ==
  [f \in DOMAIN results \cup {field} |-> IF f = field THEN value ELSE results[f]]

\* A mutant of Spread: the entries of the first object win.
SpreadFirstWins(first, second) ==
  [f \in DOMAIN first \cup DOMAIN second |-> IF f \in DOMAIN first THEN first[f] ELSE second[f]]

\* {...first, ...second}
Spread(first, second) ==
  [f \in DOMAIN first \cup DOMAIN second |-> IF f \in DOMAIN second THEN second[f] ELSE first[f]]

RECURSIVE parseInputOutputMappingArrayFrom(_, _)
\* values.reduce((results, value) => ...) over the values left, results so far.
parseInputOutputMappingArrayFrom(values, results) ==
  IF values = <<>> THEN results
  ELSE LET pieces == split(Head(values))
           \* value.split(':', 2).map(str => str.trim())
           field == trim(pieces[1])
           property == IF Len(pieces) >= 2 THEN trim(pieces[2]) ELSE <<>>
       IN parseInputOutputMappingArrayFrom(Tail(values),
            Put(results, field, NameValue(IF property # <<>> THEN property ELSE field)))

parseInputOutputMappingArray(values) == parseInputOutputMappingArrayFrom(values, EMPTY_OBJECT)

\* parseFieldArrayValue and parseFieldToPropertyMapping for a field of the
\* decorator that, when present, evaluates to an array of strings.
parseFieldToPropertyMapping(directive, field) ==
  IF directive[field] = <<>> THEN EMPTY_OBJECT
  ELSE parseInputOutputMappingArray(directive[field][1])

\* A class member as the reflection host gives it; decorators <<>> is null.
ClassMember(name, isStatic, decorators) ==
  [name |-> name, isStatic |-> isStatic, decorators |-> decorators]

\* reflection: filterToMembersWithDecorator(members, name, module), module <<>>
\* for undefined.
filterToMembersWithDecorator(members, name, module) ==
  LET matching(member) ==
        SelectSeq(member.decorators,
                  LAMBDA dec : IF dec.import # <<>>
                               THEN /\ dec.import[1].name = name
                                    /\ (module = <<>> \/ dec.import[1].from = module[1])
                               ELSE dec.name = name /\ module = <<>>)
      withDecorators == SelectSeq(members, LAMBDA member : matching(member) # <<>>)
  IN [i \in 1..Len(withDecorators) |->
        [member |-> withDecorators[i], decorators |-> matching(withDecorators[i])]]

RECURSIVE parseDecorators(_, _, _, _)
\* field.decorators.forEach(decorator => ...) of parseDecoratedFields, for the
\* decorators left; out holds the results and the error thrown, if any.
parseDecorators(fieldName, decorators, mapValueResolver, out) ==
  IF decorators = <<>> \/ out.thrown # <<>> THEN out
  ELSE LET dec == Head(decorators)
       IN parseDecorators(fieldName, Tail(decorators), mapValueResolver,
            IF dec.argsNull \/ Len(dec.args) = 0
            THEN [out EXCEPT !.results = Put(@, fieldName, NameValue(fieldName))]
            ELSE IF Len(dec.args) = 1
            THEN [out EXCEPT !.results =
                    Put(@, fieldName,
                        IF mapValueResolver = "resolveInput"
                        THEN PairValue(dec.args[1], fieldName)
                        ELSE NameValue(dec.args[1]))]
            ELSE [out EXCEPT !.thrown =
                    <<FatalDiagnosticError("DECORATOR_ARITY_WRONG", dec.name,
                                           "can have at most one argument")>>])

RECURSIVE parseDecoratedFieldsFrom(_, _, _)
parseDecoratedFieldsFrom(fields, mapValueResolver, out) ==
  IF fields = <<>> \/ out.thrown # <<>> THEN out
  ELSE parseDecoratedFieldsFrom(Tail(fields), mapValueResolver,
         parseDecorators(Head(fields).member.name, Head(fields).decorators,
                         mapValueResolver, out))

\* parseDecoratedFields(fields, evaluator, mapValueResolver); the arguments of
\* the decorators evaluate to strings.
parseDecoratedFields(fields, mapValueResolver) ==
  parseDecoratedFieldsFrom(fields, mapValueResolver,
                           [results |-> EMPTY_OBJECT, thrown |-> <<>>])

\* unwrapConstructorDependencies(deps).
unwrapConstructorDependencies(deps) ==
  IF deps.kind = "null" THEN [kind |-> "null", deps |-> <<>>, thrown |-> <<>>]
  ELSE IF deps.kind = "deps" THEN [kind |-> "deps", deps |-> deps.deps, thrown |-> <<>>]
  ELSE [kind |-> "invalid", deps |-> <<>>, thrown |-> <<>>]

\* createUnsuitableInjectionTokenError(clazz, error): the first message of the
\* chain names the parameter, or its index if it has no name; the next message
\* depends on the reason.
createUnsuitableInjectionTokenError(cls, error) ==
  FatalDiagnosticError("PARAM_MISSING_TOKEN", error.param,
    [messageText |-> <<"No suitable injection token for parameter",
                       IF error.param # <<>> THEN error.param[1] ELSE ToString(error.index),
                       "of class", cls.name>>,
     next |-> CASE error.reason \in {"UNSUPPORTED", "NO_VALUE_DECLARATION", "NAMESPACE"} ->
                     "Consider using the @Inject decorator to specify an injection token."
                [] error.reason = "TYPE_ONLY_IMPORT" ->
                     "Consider changing the type-only import to a regular import, or use the @Inject decorator to specify an injection token."
                [] error.reason = "UNKNOWN_REFERENCE" ->
                     "The type should reference a known declaration."
                [] OTHER ->
                     "Consider adding a type to the parameter or use the @Inject decorator to specify an injection token."])

\* A mutant of validateConstructorDependencies: invalid deps are let through.
ValidateAcceptsInvalid(cls, deps) == unwrapConstructorDependencies(deps)

\* validateConstructorDependencies(clazz, deps).
validateConstructorDependencies(cls, deps) ==
  IF deps.kind = "null" THEN [kind |-> "null", deps |-> <<>>, thrown |-> <<>>]
  ELSE IF deps.kind = "deps" THEN [kind |-> "deps", deps |-> deps.deps, thrown |-> <<>>]
  ELSE [kind |-> "throw", deps |-> <<>>,
        thrown |-> <<createUnsuitableInjectionTokenError(cls, deps.errors[1])>>]

\* compiler: parseHostBindings(host), by the first character of each key:
\* [property], (listener), or an attribute.
parseHostBindings(hostMetadata) ==
  [properties |-> SelectSeq(hostMetadata, LAMBDA entry : Head(entry.key) = "["),
   listeners |-> SelectSeq(hostMetadata, LAMBDA entry : Head(entry.key) = "("),
   attributes |-> SelectSeq(hostMetadata, LAMBDA entry : Head(entry.key) \notin {"[", "("})]

RECURSIVE ErrorsOf(_)
\* The ParseErrors of the expressions of a list of bindings: entry.errors are
\* the messages the expression parser gives for the value of the entry.
ErrorsOf(entries) ==
  IF entries = <<>> THEN <<>> ELSE Head(entries).errors \o ErrorsOf(Tail(entries))

\* compiler: verifyHostBindings(bindings, sourceSpan): the errors of the binding
\* parser after the listeners and then the properties have been parsed.
verifyHostBindings(bindings) == ErrorsOf(bindings.listeners) \o ErrorsOf(bindings.properties)

\* A mutant of join: only the first element.
JoinFirstOnly(array, separator) == IF array = <<>> THEN <<>> ELSE <<array[1]>>

RECURSIVE join(_, _)
\* array.join(separator), as the sequence of its pieces.
join(array, separator) ==
  IF array = <<>> THEN <<>>
  ELSE IF Len(array) = 1 THEN <<array[1]>>
  ELSE <<array[1], separator>> \o join(Tail(array), separator)

\* evaluateHostExpressionBindings(hostExpr, evaluator), for a host expression
\* that evaluates to a map from strings to strings.
evaluateHostExpressionBindings(hostExpr) ==
  LET bindings == parseHostBindings(hostExpr)
      errors == verifyHostBindings(bindings)
  IN IF Len(errors) > 0
     THEN [bindings |-> <<>>,
           thrown |-> <<FatalDiagnosticError("HOST_BINDING_PARSE_ERROR", "host",
                                             join(errors, "\n"))>>]
     ELSE [bindings |-> <<bindings>>, thrown |-> <<>>]

\* extractHostBindings(members, evaluator, coreModule, metadata) of shared.ts,
\* for members without @HostBinding and @HostListener.
extractHostBindings(directive) ==
  IF directive.host # <<>> THEN evaluateHostExpressionBindings(directive.host[1])
  ELSE [bindings |-> <<parseHostBindings(<<>>)>>, thrown |-> <<>>]

\* The name that parseHostBindings takes from a key of the form [name] or (name).
bindingName(key) == SubSeq(key, 2, Len(key) - 1)

RECURSIVE namedBindings(_, _)
\* The properties or the listeners of parsed host bindings as an object from the names to
\* the expressions; the expression of an entry of the host map is told by its key.
namedBindings(entries, results) ==
  IF entries = <<>> THEN results
  ELSE namedBindings(Tail(entries),
                     Put(results, bindingName(Head(entries).key), <<"host">> \o Head(entries).key))

\* getSafePropertyAccessString(accessor, name), for a name that is an identifier.
getSafePropertyAccessString(accessor, name) == <<accessor, ".">> \o name

RECURSIVE hostBindingDecorators(_, _, _)
\* decorators.forEach(decorator => ...) for the @HostBinding decorators of a member
\* (shared.ts:347-371).
hostBindingDecorators(memberName, decorators, out) ==
  IF decorators = <<>> \/ out.thrown # <<>> THEN out
  ELSE LET dec == Head(decorators)
           hasArgs == ~dec.argsNull /\ Len(dec.args) > 0
       IN hostBindingDecorators(memberName, Tail(decorators),
            IF hasArgs /\ Len(dec.args) # 1
            THEN [out EXCEPT !.thrown =
                    <<FatalDiagnosticError("DECORATOR_ARITY_WRONG", dec.name,
                                           "@HostBinding can have at most one argument")>>]
            ELSE [out EXCEPT !.results =
                    Put(@, IF hasArgs THEN dec.args[1] ELSE memberName,
                        getSafePropertyAccessString("this", memberName))])

RECURSIVE hostListenerDecorators(_, _, _)
\* decorators.forEach(decorator => ...) for the @HostListener decorators of a member
\* (shared.ts:376-409); the arguments evaluate to a string and an array of strings.
hostListenerDecorators(memberName, decorators, out) ==
  IF decorators = <<>> \/ out.thrown # <<>> THEN out
  ELSE LET dec == Head(decorators)
           hasArgs == ~dec.argsNull /\ Len(dec.args) > 0
           eventName == IF hasArgs THEN dec.args[1] ELSE memberName
           args == IF hasArgs /\ Len(dec.args) = 2 THEN dec.args[2] ELSE <<>>
       IN hostListenerDecorators(memberName, Tail(decorators),
            IF hasArgs /\ Len(dec.args) > 2
            THEN [out EXCEPT !.thrown =
                    <<FatalDiagnosticError("DECORATOR_ARITY_WRONG", dec.name,
                                           "@HostListener can have at most two arguments")>>]
            ELSE [out EXCEPT !.results =
                    Put(@, eventName, memberName \o <<"(">> \o join(args, ",") \o <<")">>)])

RECURSIVE forEachHostMember(_, _, _)
\* filterToMembersWithDecorator(members, name, coreModule).forEach(...) of extractHostBindings.
forEachHostMember(fields, name, out) ==
  IF fields = <<>> \/ out.thrown # <<>> THEN out
  ELSE forEachHostMember(Tail(fields), name,
         IF name = "HostBinding"
         THEN hostBindingDecorators(Head(fields).member.name, Head(fields).decorators, out)
         ELSE hostListenerDecorators(Head(fields).member.name, Head(fields).decorators, out))

\* extractHostBindings of shared.ts, the part after the host map (345-411): the
\* @HostBinding members are written into bindings.properties, then the @HostListener
\* members into bindings.listeners.
hostBindingsOfMembers(members, coreModule, bindings) ==
  LET properties ==
        forEachHostMember(filterToMembersWithDecorator(members, "HostBinding", coreModule),
                          "HostBinding",
                          [results |-> namedBindings(bindings.properties, EMPTY_OBJECT),
                           thrown |-> <<>>])
      listeners ==
        forEachHostMember(filterToMembersWithDecorator(members, "HostListener", coreModule),
                          "HostListener",
                          [results |-> namedBindings(bindings.listeners, EMPTY_OBJECT),
                           thrown |-> properties.thrown])
  IN [properties |-> properties.results, listeners |-> listeners.results,
      thrown |-> listeners.thrown]

\* A facade that hands back the bindings it could parse and throws nothing.
JitExtractHostBindingsLenient(host) ==
  [bindings |-> <<parseHostBindings(IF host = <<>> THEN <<>> ELSE host[1])>>, thrown |-> <<>>]

\* extractHostBindings(propMetadata, sourceSpan, host) of jit_compiler_facade.ts,
\* for a class without @HostBinding and @HostListener: it throws an Error.
jitExtractHostBindings(host) ==
  LET bindings == parseHostBindings(IF host = <<>> THEN <<>> ELSE host[1])
      errors == verifyHostBindings(bindings)
  IN IF Len(errors) # 0
     THEN [bindings |-> <<>>, thrown |-> <<[code |-> "Error", node |-> "",
                                            message |-> join(errors, "\n")]>>]
     ELSE [bindings |-> <<bindings>>, thrown |-> <<>>]

\* parseHostDirectivesMapping(field, resolvedValue, classReference,
\* sourceExpression): <<>> is null. The arrays hold strings only.
parseHostDirectivesMapping(field, resolvedValue) ==
  IF resolvedValue.isMap /\ resolvedValue[field] # <<>>
  THEN IF resolvedValue[field][1].isArray
       THEN <<parseInputOutputMappingArray(resolvedValue[field][1].values)>>
       ELSE <<>>
  ELSE <<>>

RECURSIVE extractHostDirectivesFrom(_, _)
\* resolved.map(value => ...) of extractHostDirectives, for the values left.
extractHostDirectivesFrom(resolved, out) ==
  IF resolved = <<>> \/ out.thrown # <<>> THEN out
  ELSE LET value == Head(resolved)
           \* value instanceof Map ? value.get('directive') : value
           hostReference == value.directive
       IN extractHostDirectivesFrom(Tail(resolved),
            IF hostReference = <<>> \/ ~hostReference[1].isReference
            THEN [out EXCEPT !.thrown =
                    <<createValueHasWrongTypeError("hostDirectives",
                                                   "Host directive must be a reference")>>]
            ELSE IF ~hostReference[1].isClass
            THEN [out EXCEPT !.thrown =
                    <<createValueHasWrongTypeError("hostDirectives",
                                                   "Host directive reference must be a class")>>]
            ELSE [out EXCEPT !.metas =
                    Append(@, [directive |-> hostReference[1],
                               isForwardReference |-> hostReference[1].synthetic,
                               inputs |-> parseHostDirectivesMapping("inputs", value),
                               outputs |-> parseHostDirectivesMapping("outputs", value)])])

\* extractHostDirectives(rawHostDirectives, evaluator).
extractHostDirectives(rawHostDirectives) ==
  IF ~rawHostDirectives.isArray
  THEN [metas |-> <<>>,
        thrown |-> <<createValueHasWrongTypeError("hostDirectives",
                                                  "hostDirectives must be an array")>>]
  ELSE extractHostDirectivesFrom(rawHostDirectives.values, [metas |-> <<>>, thrown |-> <<>>])

\* The keys of the decorator's object literal that the model gives a value.
EmptyDirective ==
  [jit |-> FALSE, selector |-> <<>>, inputs |-> <<>>, outputs |-> <<>>, host |-> <<>>,
   hostDirectives |-> <<>>]

\* A mutant of parseSelector: an empty selector is kept as it is.
ParseSelectorKeepsEmpty(cls, directive, defSelector) ==
  IF directive.selector # <<>>
  THEN LET resolved == directive.selector[1]
       IN IF resolved.type # "string"
          THEN [selector |-> <<>>,
                thrown |-> <<createValueHasWrongTypeError("selector", "selector must be a string")>>]
          ELSE [selector |-> <<resolved.value>>, thrown |-> <<>>]
  ELSE [selector |-> defSelector, thrown |-> <<>>]

\* The selector of extractDirectiveMetadata (shared.ts:120-135); <<>> is null.
parseSelector(cls, directive, defSelector) ==
  IF directive.selector # <<>>
  THEN LET resolved == directive.selector[1]
       IN IF resolved.type # "string"
          THEN [selector |-> <<>>,
                thrown |-> <<createValueHasWrongTypeError("selector", "selector must be a string")>>]
          ELSE LET selector == IF resolved.value = "" THEN defSelector ELSE <<resolved.value>>
               IN IF selector = <<>> \/ selector[1] = ""
                  THEN [selector |-> <<>>,
                        thrown |-> <<FatalDiagnosticError("DIRECTIVE_MISSING_SELECTOR", "selector",
                                       <<"Directive", cls.name, "has no selector, please add it!">>)>>]
                  ELSE [selector |-> selector, thrown |-> <<>>]
  ELSE [selector |-> defSelector, thrown |-> <<>>]

\* A mutant of isStructural: any dependency named TemplateRef counts.
IsStructuralByName(ctorDeps) ==
  /\ ctorDeps.kind = "deps"
  /\ \E i \in 1..Len(ctorDeps.deps) : ctorDeps.deps[i].token.name = "TemplateRef"

\* Structural directives must have a TemplateRef dependency (shared.ts:170-175).
isStructural(ctorDeps) ==
  /\ ctorDeps.kind = "deps"
  /\ \E i \in 1..Len(ctorDeps.deps) :
       /\ ctorDeps.deps[i].token.expr = "ExternalExpr"
       /\ ctorDeps.deps[i].token.moduleName = "@angular/core"
       /\ ctorDeps.deps[i].token.name = "TemplateRef"

\* The decorator of the class: its name and its arguments, each an object
\* literal with its properties or another expression.
ClassDecorator(name, args) == [name |-> name, args |-> args]

ObjectLiteral(properties) == [isObjectLiteral |-> TRUE, properties |-> properties]

NotObjectLiteral == [isObjectLiteral |-> FALSE, properties |-> EmptyDirective]

\* extractDirectiveMetadata(clazz, decorator, reflector, evaluator, refEmitter,
\* isCore, flags, annotateForClosureCompiler, defaultSelector), for decorators
\* without queries, providers, exportAs and standalone.
extractDirectiveMetadata(cls, dec, defSelector) ==
  IF dec.args # <<>> /\ Len(dec.args) # 1
  THEN Thrown(FatalDiagnosticError("DECORATOR_ARITY_WRONG", dec.name,
                                   "Incorrect number of arguments to decorator"))
  ELSE IF dec.args # <<>> /\ ~dec.args[1].isObjectLiteral
  THEN Thrown(FatalDiagnosticError("DECORATOR_ARG_NOT_LITERAL", dec.name,
                                   "argument must be an object literal"))
  ELSE
  LET directive == IF dec.args = <<>> THEN EmptyDirective ELSE dec.args[1].properties
      decoratedElements ==
        SelectSeq(cls.members, LAMBDA member : ~member.isStatic /\ member.decorators # <<>>)
      coreModule == IF isCore THEN <<>> ELSE <<"@angular/core">>
      inputsFromMeta == parseFieldToPropertyMapping(directive, "inputs")
      inputsFromFields ==
        parseDecoratedFields(filterToMembersWithDecorator(decoratedElements, "Input", coreModule),
                             "resolveInput")
      outputsFromMeta == parseFieldToPropertyMapping(directive, "outputs")
      outputsFromFields ==
        parseDecoratedFields(filterToMembersWithDecorator(decoratedElements, "Output", coreModule),
                             "resolveOutput")
      selector == parseSelector(cls, directive, defSelector)
      host == extractHostBindings(directive)
      hostOfMembers ==
        IF host.thrown # <<>> THEN [properties |-> EMPTY_OBJECT, listeners |-> EMPTY_OBJECT,
                                    thrown |-> <<>>]
        ELSE hostBindingsOfMembers(decoratedElements, coreModule, host.bindings[1])
      rawCtorDeps == getConstructorDependencies(cls)
      ctorDeps == IF selector.selector # <<>>
                  THEN validateConstructorDependencies(cls, rawCtorDeps)
                  ELSE unwrapConstructorDependencies(rawCtorDeps)
      hostDirectives ==
        IF directive.hostDirectives = <<>> THEN [metas |-> <<>>, thrown |-> <<>>]
        ELSE extractHostDirectives(directive.hostDirectives[1])
  IN IF directive.jit THEN [kind |-> "undefined", thrown |-> <<>>]
     ELSE IF inputsFromFields.thrown # <<>> THEN Thrown(inputsFromFields.thrown[1])
     ELSE IF outputsFromFields.thrown # <<>> THEN Thrown(outputsFromFields.thrown[1])
     ELSE IF selector.thrown # <<>> THEN Thrown(selector.thrown[1])
     ELSE IF host.thrown # <<>> THEN Thrown(host.thrown[1])
     ELSE IF hostOfMembers.thrown # <<>> THEN Thrown(hostOfMembers.thrown[1])
     ELSE IF rawCtorDeps.kind = "throw" THEN Thrown(rawCtorDeps.thrown[1])
     ELSE IF ctorDeps.thrown # <<>> THEN Thrown(ctorDeps.thrown[1])
     ELSE IF hostDirectives.thrown # <<>> THEN Thrown(hostDirectives.thrown[1])
     ELSE [kind |-> "ok", thrown |-> <<>>,
           metadata |-> [name |-> cls.name,
                         deps |-> [kind |-> ctorDeps.kind, deps |-> ctorDeps.deps],
                         host |-> host.bindings[1],
                         selector |-> selector.selector,
                         usesInheritance |-> cls.hasBaseClass],
           inputs |-> Spread(inputsFromMeta, inputsFromFields.results),
           outputs |-> Spread(outputsFromMeta, outputsFromFields.results),
           hostProperties |-> hostOfMembers.properties,
           hostListeners |-> hostOfMembers.listeners,
           isStructural |-> isStructural(ctorDeps),
           hasHostDirectives |-> directive.hostDirectives # <<>>,
           hostDirectives |-> hostDirectives.metas]

(***************************************************************************)
(* The JIT facade (compiler/src/jit_compiler_facade.ts): the conversion of  *)
(* the facade that the runtime decorators of a class give.                  *)
(***************************************************************************)
\* The annotation that a property decorator of @angular/core leaves in propMetadata: its
\* first argument is the binding property name, the host property name or the event name;
\* <<>> is undefined.
annotationOf(dec) ==
  LET first == IF dec.argsNull \/ Len(dec.args) = 0 THEN <<>> ELSE <<dec.args[1]>>
  IN [ngMetadataName |-> dec.import[1].name,
      bindingPropertyName |-> first, hostPropertyName |-> first, eventName |-> first,
      args |-> IF ~dec.argsNull /\ Len(dec.args) >= 2 THEN <<dec.args[2]>> ELSE <<>>]

RECURSIVE propMetadataOf(_)
\* propMetadata of a class: for each decorated instance member, in the order of the class,
\* the annotations of its decorators of @angular/core, in the order of the source.
propMetadataOf(members) ==
  IF members = <<>> THEN <<>>
  ELSE LET member == Head(members)
           decorators == SelectSeq(member.decorators, isAngularCore)
       IN (IF member.isStatic \/ decorators = <<>> THEN <<>>
           ELSE <<[field |-> member.name,
                   annotations |-> [i \in 1..Len(decorators) |-> annotationOf(decorators[i])]]>>)
          \o propMetadataOf(Tail(members))

\* The facade of a class with the given decorator properties.
facadeOf(cls, directive) ==
  [inputs |-> directive.inputs, outputs |-> directive.outputs, host |-> directive.host,
   propMetadata |-> propMetadataOf(cls.members)]

\* The truth of an optional string in a condition: undefined and '' are false.
truthy(optionalString) == optionalString # <<>> /\ optionalString[1] # <<>>

RECURSIVE parseInputOutputsFrom(_, _)
parseInputOutputsFrom(values, results) ==
  IF values = <<>> THEN results
  ELSE LET pieces == split(Head(values))
           field == trim(pieces[1])
           property == IF Len(pieces) >= 2 THEN trim(pieces[2]) ELSE <<>>
       IN parseInputOutputsFrom(Tail(values),
            Put(results, field, NameValue(IF property # <<>> THEN property ELSE field)))

\* parseInputOutputs(values) of the facade.
parseInputOutputs(values) == parseInputOutputsFrom(values, EMPTY_OBJECT)

RECURSIVE inputsAndOutputsFromType(_, _, _)
\* The loop over propMetadata of convertDirectiveFacadeToMetadata (346-357), from the
\* field at index i on and, in the field, over all its annotations.
inputsAndOutputsFromType(propMetadata, i, out) ==
  IF i > Len(propMetadata) THEN out
  ELSE LET field == propMetadata[i].field
           forEachAnn[k \in 0..Len(propMetadata[i].annotations)] ==
             IF k = 0 THEN out
             ELSE LET ann == propMetadata[i].annotations[k]
                      sofar == forEachAnn[k - 1]
                  IN IF ann.ngMetadataName = "Input"
                     THEN [sofar EXCEPT !.inputs =
                             Put(@, field,
                                 IF truthy(ann.bindingPropertyName)
                                 THEN PairValue(ann.bindingPropertyName[1], field)
                                 ELSE NameValue(field))]
                     ELSE IF ann.ngMetadataName = "Output"
                     THEN [sofar EXCEPT !.outputs =
                             Put(@, field,
                                 NameValue(IF truthy(ann.bindingPropertyName)
                                           THEN ann.bindingPropertyName[1] ELSE field))]
                     ELSE sofar
       IN inputsAndOutputsFromType(propMetadata, i + 1,
                                   forEachAnn[Len(propMetadata[i].annotations)])

RECURSIVE jitHostBindingsOfMembers(_, _, _)
\* extractHostBindings of the facade, the loop over propMetadata (648-663).
jitHostBindingsOfMembers(propMetadata, i, bindings) ==
  IF i > Len(propMetadata) THEN bindings
  ELSE LET field == propMetadata[i].field
           forEachAnn[k \in 0..Len(propMetadata[i].annotations)] ==
             IF k = 0 THEN bindings
             ELSE LET ann == propMetadata[i].annotations[k]
                      sofar == forEachAnn[k - 1]
                  IN IF ann.ngMetadataName = "HostBinding"
                     THEN [sofar EXCEPT !.properties =
                             Put(@, IF truthy(ann.hostPropertyName)
                                    THEN ann.hostPropertyName[1] ELSE field,
                                 getSafePropertyAccessString("this", field))]
                     ELSE IF ann.ngMetadataName = "HostListener"
                     THEN [sofar EXCEPT !.listeners =
                             Put(@, IF truthy(ann.eventName) THEN ann.eventName[1] ELSE field,
                                 field \o <<"(">>
                                   \o join(IF ann.args = <<>> THEN <<>> ELSE ann.args[1], ",")
                                   \o <<")">>)]
                     ELSE sofar
       IN jitHostBindingsOfMembers(propMetadata, i + 1,
                                   forEachAnn[Len(propMetadata[i].annotations)])

\* convertDirectiveFacadeToMetadata(facade): its inputs, outputs and host bindings.
convertDirectiveFacadeToMetadata(facade) ==
  LET inputsFromMetadata ==
        parseInputOutputs(IF facade.inputs = <<>> THEN <<>> ELSE facade.inputs[1])
      outputsFromMetadata ==
        parseInputOutputs(IF facade.outputs = <<>> THEN <<>> ELSE facade.outputs[1])
      fromType == inputsAndOutputsFromType(facade.propMetadata, 1,
                                           [inputs |-> EMPTY_OBJECT, outputs |-> EMPTY_OBJECT])
      parsed == jitExtractHostBindings(facade.host)
      host == jitHostBindingsOfMembers(
                facade.propMetadata, 1,
                [properties |-> namedBindings(parsed.bindings[1].properties, EMPTY_OBJECT),
                 listeners |-> namedBindings(parsed.bindings[1].listeners, EMPTY_OBJECT)])
  IN IF parsed.thrown # <<>> THEN Thrown(parsed.thrown[1])
     ELSE [kind |-> "ok", thrown |-> <<>>,
           inputs |-> Spread(inputsFromMetadata, fromType.inputs),
           outputs |-> Spread(outputsFromMetadata, fromType.outputs),
           hostProperties |-> host.properties,
           hostListeners |-> host.listeners]

\* DtsMetadataReader.getDirectiveMetadata(ref) (dynamic.ts:348-411). cls.def is
\* the static field named cmp or dir of the class, <<>> if it has none;
\* def.typeOk: its type is a type reference with at least two arguments.
getDirectiveMetadata(cls) ==
  IF cls.def = <<>> THEN [kind |-> "null", thrown |-> <<>>]
  ELSE IF ~cls.def[1].typeOk THEN [kind |-> "null", thrown |-> <<>>]
  ELSE LET isComponent == cls.def[1].name = "cmp"
       IN [kind |-> "ok", thrown |-> <<>>,
           metadata |-> [name |-> cls.name, isComponent |-> isComponent,
                         selector |-> cls.def[1].selector],
           isStructural |->
             /\ ~isComponent
             /\ cls.ctorParams # <<>>
             /\ \E i \in 1..Len(cls.ctorParams[1]) :
                  LET typeValueReference == cls.ctorParams[1][i].typeValueReference
                  IN /\ typeValueReference.kind = "IMPORTED"
                     /\ typeValueReference.moduleName = "@angular/core"
                     /\ typeValueReference.name = "TemplateRef"]

\* A mutant of resolveDeclaration: only directives need a selector.
ResolveDeclarationOfDirective(module, dirMeta) ==
  IF module.scope = "ok" /\ module.declares /\ dirMeta # <<>>
     /\ dirMeta[1].selector = <<>> /\ ~dirMeta[1].isComponent
  THEN Thrown(FatalDiagnosticError("DIRECTIVE_MISSING_SELECTOR", dirMeta[1].name,
                <<"Directive", dirMeta[1].name, "has no selector, please add it!">>))
  ELSE [kind |-> "ok", thrown |-> <<>>]

\* NgModuleDecoratorHandler.resolve, the loop over analysis.declarations
\* (part_005:550-574) for a module that declares the class or not; dirMeta is
\* what the metadata reader gives for the class, <<>> for null.
resolveDeclaration(module, dirMeta) ==
  IF module.scope = "ok" /\ module.declares /\ dirMeta # <<>> /\ dirMeta[1].selector = <<>>
  THEN Thrown(FatalDiagnosticError("DIRECTIVE_MISSING_SELECTOR", dirMeta[1].name,
                <<IF dirMeta[1].isComponent THEN "Component" ELSE "Directive",
                  dirMeta[1].name, "has no selector, please add it!">>))
  ELSE [kind |-> "ok", thrown |-> <<>>]

(***************************************************************************)
(* The classes analysed and the analysis as an action.                     *)
(***************************************************************************)
\* The decorators a constructor parameter can carry: the DI decorators of
\* @angular/core, @Inject without argument, @Optional imported under another
\* name, a decorator named Optional of another library, and a decorator of
\* @angular/core that is no DI decorator.
ParamDecorators ==
  {CoreDecorator("Inject", <<"TOKEN_A">>), CoreDecorator("Inject", <<"TOKEN_B">>),
   CoreDecorator("Inject", <<>>), CoreDecorator("Attribute", <<"attr">>),
   CoreDecorator("Optional", <<>>), CoreDecorator("Self", <<>>),
   CoreDecorator("SkipSelf", <<>>), CoreDecorator("Host", <<>>),
   Decorator("Opt", <<[name |-> "Optional", from |-> "@angular/core"]>>, FALSE, <<>>),
   Decorator("Optional", <<[name |-> "Optional", from |-> "other-lib"]>>, FALSE, <<>>),
   CoreDecorator("Input", <<>>)}

DecoratorLists == UNION {[1..n -> ParamDecorators] : n \in 0..MaxDecorators}

CtorParameter(name, typeValueReference, decorators) ==
  [name |-> name, typeValueReference |-> typeValueReference, decorators |-> decorators]

ParamTypes ==
  {LocalTypeValueReference("Service")}
    \cup {UnavailableTypeValueReference(reason) : reason \in ValueUnavailableKinds}

\* The constructors: none, or a parameter of any type with any decorators,
\* possibly after an undecorated parameter of a class type and possibly before
\* an undecorated parameter without a type. param.name is null for a
\* destructured parameter.
Constructors ==
  {<<>>} \cup
  {<<before \o <<CtorParameter(<<"main">>, type, decorators)>> \o after>> :
     before \in {<<>>, <<CtorParameter(<<"first">>, LocalTypeValueReference("Service"), <<>>)>>},
     type \in ParamTypes,
     decorators \in DecoratorLists,
     after \in {<<>>, <<CtorParameter(<<>>, UnavailableTypeValueReference("MISSING_TYPE"), <<>>)>>}}

ClassDeclaration(name, ctorParams, hasBaseClass) ==
  [name |-> name, ctorParams |-> ctorParams, hasBaseClass |-> hasBaseClass]

NotAnalyzed == [op |-> "none"]

\* getConstructorDependencies is called for the class.
GetConstructorDependencies ==
  /\ analysis = NotAnalyzed
  /\ analysis' = [op |-> "getConstructorDependencies",
                  result |-> getConstructorDependencies(clazz)]
  /\ UNCHANGED <<clazz, isCore, decorator, defaultSelector, ngModule, resolution,
                 besidesCompiler>>

NotResolved == [op |-> "none"]

\* No decorator is analysed and no NgModule resolved.
DirectiveIdle ==
  /\ decorator = ClassDecorator("Directive", <<>>)
  /\ defaultSelector = <<>>
  /\ ngModule = [declares |-> FALSE, scope |-> "null"]
  /\ resolution = NotResolved

\* A class with one of the constructors, not yet analysed.
CtorInit ==
  /\ \E ctorParams \in Constructors, hasBaseClass \in BOOLEAN :
       clazz = ClassDeclaration("Cls", ctorParams, hasBaseClass)
  /\ isCore \in BOOLEAN
  /\ analysis = NotAnalyzed
  /\ DirectiveIdle

CompilerIdle ==
  /\ clazz = ClassDeclaration("Cls", <<>>, FALSE)
  /\ isCore = FALSE
  /\ analysis = NotAnalyzed
  /\ DirectiveIdle

(***************************************************************************)
(* The directives analysed.                                                *)
(***************************************************************************)
\* What the evaluator gives for an expression of the decorator.
StringValue(value) == [type |-> "string", value |-> value]

NullValue == [type |-> "null", value |-> ""]

\* The class of a directive: a class declaration with its members, the file it
\* is in (ts or dts) and, in a .d.ts file, its static definition field.
DirectiveClass(name, ctorParams, hasBaseClass, members, file, def) ==
  [name |-> name, ctorParams |-> ctorParams, hasBaseClass |-> hasBaseClass,
   members |-> members, file |-> file, def |-> def]

\* The selector property of the decorator: absent, '', a selector, null.
Selectors == {<<>>, <<StringValue("")>>, <<StringValue("dir")>>, <<NullValue>>}

\* The callers of extractDirectiveMetadata: the directive handler gives no
\* default selector, the component handler that of the element schema
\* registry; a third caller gives a directive a default.
Callers ==
  {[name |-> "Directive", defaultSelector |-> <<>>],
   [name |-> "Directive", defaultSelector |-> <<"dir-default">>],
   [name |-> "Component", defaultSelector |-> <<"ng-component">>]}

TemplateRefType == ImportedTypeValueReference("@angular/core", "TemplateRef")

\* The constructors of the directives: none, or one to three parameters with
\* resolvable and unresolvable tokens, some of them TemplateRef.
DirectiveConstructors ==
  {<<>>,
   <<<<CtorParameter(<<"svc">>, LocalTypeValueReference("Service"), <<>>)>>>>,
   <<<<CtorParameter(<<"tpl">>, TemplateRefType, <<>>)>>>>,
   <<<<CtorParameter(<<"tpl">>, TemplateRefType, <<CoreDecorator("Optional", <<>>)>>)>>>>,
   <<<<CtorParameter(<<"tpl">>, TemplateRefType, <<CoreDecorator("Inject", <<"TOKEN_A">>)>>)>>>>,
   <<<<CtorParameter(<<"tpl">>, LocalTypeValueReference("Service"),
                     <<CoreDecorator("Inject", <<"TemplateRef">>)>>)>>>>,
   <<<<CtorParameter(<<"tpl">>, ImportedTypeValueReference("other-lib", "TemplateRef"), <<>>)>>>>,
   <<<<CtorParameter(<<"tpl">>, LocalTypeValueReference("TemplateRef"), <<>>)>>>>,
   <<<<CtorParameter(<<"dep">>, UnavailableTypeValueReference("NO_VALUE_DECLARATION"), <<>>)>>>>,
   <<<<CtorParameter(<<>>, UnavailableTypeValueReference("MISSING_TYPE"), <<>>)>>>>,
   <<<<CtorParameter(<<"dep">>, UnavailableTypeValueReference("TYPE_ONLY_IMPORT"),
                     <<CoreDecorator("Inject", <<"TOKEN_A">>)>>)>>>>,
   <<<<CtorParameter(<<"tpl">>, TemplateRefType, <<>>),
       CtorParameter(<<"dep">>, UnavailableTypeValueReference("UNKNOWN_REFERENCE"), <<>>),
       CtorParameter(<<"last">>, UnavailableTypeValueReference("NAMESPACE"), <<>>)>>>>,
   <<<<CtorParameter(<<"svc">>, LocalTypeValueReference("Service"),
                     <<CoreDecorator("Input", <<>>)>>)>>>>}

\* Entries of the inputs and outputs arrays of a decorator, up to MaxMappings
\* of them in an array.
MappingStrings == {<<"a">>, <<"a", ":", " ", "x">>, <<" ", "b", ":", "y", ":", "z">>}

MappingArrays == UNION {[1..n -> MappingStrings] : n \in 0..MaxMappings}

\* The decorators of a member: @Input(), @Input('p'), @Output('q').
MemberDecorators ==
  {CoreDecorator("Input", <<>>), CoreDecorator("Input", <<<<"p">>>>),
   CoreDecorator("Output", <<<<"q">>>>)}

MemberDecoratorLists == UNION {[1..n -> MemberDecorators] : n \in 0..MaxDecorators}

\* The entries of a host object: an attribute, a property and a listener that
\* parse, and two properties and a listener whose expressions do not.
HostEntry(key, errors) == [key |-> key, errors |-> errors]

HostEntries ==
  {HostEntry(<<"r", "o", "l", "e">>, <<>>),
   HostEntry(<<"[", "i", "d", "]">>, <<>>),
   HostEntry(<<"[", "a", "]">>, <<"error in [a]">>),
   HostEntry(<<"[", "b", "]">>, <<"error in [b]", "second error in [b]">>),
   HostEntry(<<"(", "c", ")">>, <<"error in (c)">>)}

\* A host object has each key once.
HostObjects ==
  {object \in UNION {[1..n -> HostEntries] : n \in 0..MaxHostBindings} :
     \A i, j \in 1..Len(object) : object[i].key = object[j].key => i = j}

\* The host directive classes: HostDir has the input and the output h.
HostDirReference ==
  [isReference |-> TRUE, isClass |-> TRUE, node |-> "HostDir", synthetic |-> FALSE,
   inputs |-> {<<"h">>}, outputs |-> {<<"h">>}]

NotAClassReference ==
  [isReference |-> TRUE, isClass |-> FALSE, node |-> "fn", synthetic |-> FALSE,
   inputs |-> {}, outputs |-> {}]

StringArray(values) == [isArray |-> TRUE, values |-> values]

\* An element of hostDirectives: a reference, or an object with directive,
\* inputs and outputs.
HostDirectiveValue(isMap, directive, inputs, outputs) ==
  [isMap |-> isMap, directive |-> directive, inputs |-> inputs, outputs |-> outputs]

HostDirectiveValues ==
  {HostDirectiveValue(FALSE, <<HostDirReference>>, <<>>, <<>>),
   HostDirectiveValue(FALSE, <<NotAClassReference>>, <<>>, <<>>),
   HostDirectiveValue(TRUE, <<>>, <<>>, <<>>),
   HostDirectiveValue(TRUE, <<HostDirReference>>, <<StringArray(<<<<"h", ":", "x">>>>)>>, <<>>),
   HostDirectiveValue(TRUE, <<HostDirReference>>, <<StringArray(<<<<"z">>>>)>>, <<>>),
   HostDirectiveValue(TRUE, <<HostDirReference>>, <<>>,
                      <<StringArray(<<<<"h">>, <<"z", ":", "x">>>>)>>)}

HostDirectiveArrays == UNION {[1..n -> HostDirectiveValues] : n \in 0..MaxHostDirectives}

\* The NgModule of the compilation: does it declare the class, and its scope.
NgModules == [declares : BOOLEAN, scope : {"ok", "poisoned", "null"}]

\* extractDirectiveMetadata is called for a class of a .ts file.
ExtractDirectiveMetadata ==
  /\ analysis = NotAnalyzed
  /\ clazz.file = "ts"
  /\ analysis' = [op |-> "extractDirectiveMetadata",
                  result |-> extractDirectiveMetadata(clazz, decorator, defaultSelector)]
  /\ UNCHANGED <<clazz, isCore, decorator, defaultSelector, ngModule, resolution,
                 besidesCompiler>>

\* The JIT facade extracts the host bindings of the decorator of the class.
JitExtractHostBindings ==
  /\ analysis = NotAnalyzed
  /\ clazz.file = "ts"
  /\ Len(decorator.args) = 1
  /\ decorator.args[1].isObjectLiteral
  /\ analysis' = [op |-> "extractHostBindings",
                  result |-> jitExtractHostBindings(decorator.args[1].properties.host)]
  /\ UNCHANGED <<clazz, isCore, decorator, defaultSelector, ngModule, resolution,
                 besidesCompiler>>

\* The JIT facade converts the facade of the class.
ConvertDirectiveFacadeToMetadata ==
  /\ analysis = NotAnalyzed
  /\ clazz.file = "ts"
  /\ Len(decorator.args) = 1
  /\ decorator.args[1].isObjectLiteral
  /\ analysis' = [op |-> "convertDirectiveFacadeToMetadata",
                  result |-> convertDirectiveFacadeToMetadata(
                               facadeOf(clazz, decorator.args[1].properties))]
  /\ UNCHANGED <<clazz, isCore, decorator, defaultSelector, ngModule, resolution,
                 besidesCompiler>>

\* The metadata of a class of a .d.ts file is read.
GetDirectiveMetadata ==
  /\ analysis = NotAnalyzed
  /\ clazz.file = "dts"
  /\ analysis' = [op |-> "getDirectiveMetadata", result |-> getDirectiveMetadata(clazz)]
  /\ UNCHANGED <<clazz, isCore, decorator, defaultSelector, ngModule, resolution,
                 besidesCompiler>>

\* What the metadata reader gives for the class after its analysis: null if
\* the analysis gave no metadata.
DirMeta ==
  IF analysis.result.kind # "ok" THEN <<>>
  ELSE <<[name |-> clazz.name,
          selector |-> analysis.result.metadata.selector,
          isComponent |-> IF analysis.op = "getDirectiveMetadata"
                          THEN analysis.result.metadata.isComponent
                          ELSE decorator.name = "Component"]>>

\* The NgModule is resolved after the analysis of the class.
ResolveNgModule ==
  /\ analysis.op \in {"extractDirectiveMetadata", "getDirectiveMetadata"}
  /\ resolution = NotResolved
  /\ resolution' = [op |-> "resolve", result |-> resolveDeclaration(ngModule, DirMeta)]
  /\ UNCHANGED <<clazz, isCore, decorator, defaultSelector, ngModule, analysis,
                 besidesCompiler>>

DirectiveNext ==
  \/ ExtractDirectiveMetadata
  \/ JitExtractHostBindings
  \/ GetDirectiveMetadata
  \/ ResolveNgModule

\* A directive of a .ts file with the given decorator properties, constructor
\* and members.
SourceDirective(caller, properties, ctorParams, hasBaseClass, members) ==
  /\ clazz = DirectiveClass("Dir", ctorParams, hasBaseClass, members, "ts", <<>>)
  /\ decorator = ClassDecorator(caller.name, <<ObjectLiteral(properties)>>)
  /\ defaultSelector = caller.defaultSelector

\* Selector and constructor vary, with and without a host object in error.
SelectorInit ==
  \E caller \in Callers, selector \in Selectors, ctorParams \in DirectiveConstructors,
     hasBaseClass \in BOOLEAN,
     host \in {<<>>, <<<<HostEntry(<<"[", "a", "]">>, <<"error in [a]">>)>>>>} :
    SourceDirective(caller,
                    [EmptyDirective EXCEPT !.selector = selector, !.host = host],
                    ctorParams, hasBaseClass, <<>>)

\* Inputs and outputs vary, in the decorator and on the members a and b.
InputsInit ==
  \E inputs \in {<<>>} \cup {<<array>> : array \in MappingArrays},
     outputs \in {<<>>, <<<<<<"a", ":", "x">>>>>>},
     decoratorsOfA \in MemberDecoratorLists,
     decoratorsOfB \in {<<>>, <<CoreDecorator("Input", <<<<"p">>>>)>>,
                        <<Decorator("Input", <<[name |-> "Input", from |-> "other-lib"]>>,
                                    FALSE, <<>>)>>} :
    SourceDirective([name |-> "Directive", defaultSelector |-> <<>>],
                    [EmptyDirective EXCEPT !.selector = <<StringValue("dir")>>,
                                           !.inputs = inputs, !.outputs = outputs],
                    <<>>, FALSE,
                    <<ClassMember(<<"a">>, FALSE, decoratorsOfA),
                      ClassMember(<<"b">>, FALSE, decoratorsOfB)>>)

\* The host object varies.
HostInit ==
  \E caller \in Callers, host \in {<<>>} \cup {<<object>> : object \in HostObjects} :
    SourceDirective(caller, [EmptyDirective EXCEPT !.host = host], <<>>, FALSE, <<>>)

\* The host directives vary.
HostDirectivesInit ==
  \E hostDirectives \in
       {<<>>, <<[isArray |-> FALSE, values |-> <<>>]>>}
         \cup {<<[isArray |-> TRUE, values |-> array]>> : array \in HostDirectiveArrays} :
    SourceDirective([name |-> "Directive", defaultSelector |-> <<>>],
                    [EmptyDirective EXCEPT !.selector = <<StringValue("dir")>>,
                                           !.hostDirectives = hostDirectives],
                    <<>>, FALSE, <<>>)

\* The decorator varies: without argument, with two, with one that is no
\* object literal, with jit: true.
DecoratorInit ==
  /\ clazz = DirectiveClass("Dir", <<>>, FALSE, <<>>, "ts", <<>>)
  /\ \E caller \in Callers :
       /\ defaultSelector = caller.defaultSelector
       /\ \E args \in {<<>>, <<ObjectLiteral(EmptyDirective), ObjectLiteral(EmptyDirective)>>,
                       <<NotObjectLiteral>>,
                       <<ObjectLiteral([EmptyDirective EXCEPT !.jit = TRUE])>>} :
            decorator = ClassDecorator(caller.name, args)

\* A class of a .d.ts file, with or without a definition field.
DtsInit ==
  /\ \E ctorParams \in DirectiveConstructors,
        def \in {<<>>} \cup
                {<<[name |-> name, typeOk |-> typeOk, selector |-> selector]>> :
                   name \in {"cmp", "dir"}, typeOk \in BOOLEAN,
                   selector \in {<<>>, <<"dir">>}} :
       clazz = DirectiveClass("Dir", ctorParams, FALSE, <<>>, "dts", def)
  /\ decorator = ClassDecorator("Directive", <<>>)
  /\ defaultSelector = <<>>

\* The decorators of a member of a class given to both compilers: inputs, outputs, host
\* bindings and host listeners, without argument, with a name and with the empty string.
FacadeMemberDecorators ==
  {CoreDecorator("Input", <<>>), CoreDecorator("Input", <<<<"p">>>>),
   CoreDecorator("Input", <<<<>>>>),
   CoreDecorator("Output", <<<<"q">>>>), CoreDecorator("Output", <<<<>>>>),
   CoreDecorator("HostBinding", <<>>), CoreDecorator("HostBinding", <<<<"i", "d">>>>),
   CoreDecorator("HostBinding", <<<<>>>>),
   CoreDecorator("HostListener", <<>>), CoreDecorator("HostListener", <<<<"c">>>>),
   CoreDecorator("HostListener", <<<<"c">>, <<"$event">>>>),
   CoreDecorator("HostListener", <<<<>>>>)}

FacadeMemberDecoratorLists ==
  UNION {[1..n -> FacadeMemberDecorators] : n \in 0..MaxDecorators}

\* The host objects of such a class: none, a property, a property and a listener, and a
\* property whose expression does not parse.
FacadeHostObjects ==
  {<<>>,
   <<<<HostEntry(<<"[", "i", "d", "]">>, <<>>)>>>>,
   <<<<HostEntry(<<"[", "i", "d", "]">>, <<>>), HostEntry(<<"(", "c", ")">>, <<>>)>>>>,
   <<<<HostEntry(<<"[", "a", "]">>, <<"error in [a]">>)>>>>}

\* A directive for both compilers: the inputs, the outputs and the host object of the
\* decorator vary, and the decorators of the members a and b.
FacadeInit ==
  /\ \E inputs \in {<<>>, <<<<<<"a", ":", "x">>>>>>},
        outputs \in {<<>>, <<<<<<"a", ":", "y">>>>>>},
        host \in FacadeHostObjects,
        decoratorsOfA \in FacadeMemberDecoratorLists,
        decoratorsOfB \in {<<>>, <<CoreDecorator("Input", <<<<"p">>>>)>>,
                           <<CoreDecorator("HostBinding", <<<<"i", "d">>>>)>>,
                           <<CoreDecorator("HostListener", <<<<"c">>>>)>>} :
       SourceDirective([name |-> "Directive", defaultSelector |-> <<>>],
                       [EmptyDirective EXCEPT !.selector = <<StringValue("dir")>>,
                                              !.inputs = inputs, !.outputs = outputs,
                                              !.host = host],
                       <<>>, FALSE,
                       <<ClassMember(<<"a">>, FALSE, decoratorsOfA),
                         ClassMember(<<"b">>, FALSE, decoratorsOfB)>>)
  /\ isCore = FALSE
  /\ ngModule = [declares |-> FALSE, scope |-> "null"]
  /\ analysis = NotAnalyzed
  /\ resolution = NotResolved

\* The two compilers at work on one class.
FacadeNext ==
  \/ ConvertDirectiveFacadeToMetadata
  \/ ExtractDirectiveMetadata

DirectiveInit ==
  /\ SelectorInit \/ InputsInit \/ HostInit \/ HostDirectivesInit \/ DecoratorInit \/ DtsInit
  /\ isCore = FALSE
  /\ ngModule \in NgModules
  /\ analysis = NotAnalyzed
  /\ resolution = NotResolved


(***************************************************************************)
(* Part 5: Testability (src/unnamed/part_006, lines 180-435): the queue of *)
(* callbacks waiting for the application to become stable, their timers    *)
(* and the microtasks that run them.                                        *)
(***************************************************************************)
\* A WaitCallback: the done callback, its timer (-1 without one), has it an update callback.
WaitCallback(doneCb, timeoutId, updateCb) ==
  [doneCb |-> doneCb, timeoutId |-> timeoutId, updateCb |-> updateCb]

\* The done callbacks are told apart by a number: the n-th call of whenStable hands over n.
DoneCallbacks == 1..MaxCallbacks

\* isStable()
isStable(zoneStable, pending, macrotasks) ==
  zoneStable /\ pending = 0 /\ ~macrotasks

\* clearTimeout(timeoutId): the timer, if still set, never fires.
clearTimeout(timers, timeoutId) == {t \in timers : t.timeoutId # timeoutId}

\* A timer that leaves the callback it belongs to in the queue.
TimeoutKeepsCallback(queue, timeoutId) == queue

\* The timer set by addCallback fires: the callbacks of this timer leave the queue.
timeoutFired(queue, timeoutId) == SelectSeq(queue, LAMBDA cb : cb.timeoutId # timeoutId)

RECURSIVE runCallbacks(_, _, _, _)
\* The microtask of _runCallbacksIfReady: pops the callbacks from the end of the queue,
\* clears the timer of each and calls its done callback.
runCallbacks(queue, timers, calls, work) ==
  IF Len(queue) = 0 THEN [callbacks |-> queue, timeouts |-> timers, doneCalls |-> calls]
  ELSE LET cb == queue[Len(queue)]
       IN runCallbacks(SubSeq(queue, 1, Len(queue) - 1),
                       clearTimeout(timers, cb.timeoutId),
                       Append(calls, [doneCb |-> cb.doneCb, timeoutId |-> cb.timeoutId,
                                      by |-> "stable", didWork |-> work,
                                      stable |-> isStable(isZoneStable, pendingCount,
                                                          hasPendingMacrotasks)]),
                       work)

\* The callbacks whose update callback may answer true: those that have one.
Updatable(queue) == {i \in DOMAIN queue : queue[i].updateCb}

\* _runCallbacksIfReady() with the fields as the caller left them: `queue` and `timers`,
\* `tasks` the microtasks waiting, and the update callbacks at the positions `done`
\* answering true.
RunCallbacksIfReady(zoneStable, pending, queue, timers, tasks, done) ==
  IF isStable(zoneStable, pending, hasPendingMacrotasks)
  THEN /\ microTasks' = Append(tasks, "runCallbacks")
       /\ callbacks' = queue
       /\ timeouts' = timers
       /\ UNCHANGED didWork
  ELSE /\ callbacks' = SelectSeq(queue, LAMBDA cb : ~(\E i \in done : queue[i] = cb))
       /\ timeouts' = {t \in timers : ~(\E i \in done : queue[i].timeoutId = t.timeoutId)}
       /\ didWork' = TRUE
       /\ microTasks' = tasks

\* whenStable(doneCb, timeout, updateCb): `timeout` 0 stands for none given.
WhenStable ==
  /\ whenStableCalls < MaxCallbacks
  /\ Len(microTasks) < MaxMicroTasks
  /\ \E timeout \in 0..1, updateCb \in BOOLEAN :
       IF updateCb /\ ~taskTrackingZone
       THEN \* throws: 'Task tracking zone is required ...'
            UNCHANGED testabilityVars
       ELSE LET doneCb == whenStableCalls + 1
                timeoutId == IF timeout > 0 THEN timeoutIds + 1 ELSE -1
                timers == IF timeout > 0
                          THEN timeouts \cup {[timeoutId |-> timeoutId, doneCb |-> doneCb]}
                          ELSE timeouts
                queue == Append(callbacks, WaitCallback(doneCb, timeoutId, updateCb))
            IN /\ whenStableCalls' = doneCb
               /\ timeoutIds' = IF timeout > 0 THEN timeoutId ELSE timeoutIds
               /\ \E done \in SUBSET Updatable(queue) :
                    RunCallbacksIfReady(isZoneStable, pendingCount, queue, timers,
                                        microTasks, done)
               /\ UNCHANGED <<pendingCount, isZoneStable, taskTrackingZone,
                              hasPendingMacrotasks, doneCalls>>
  /\ UNCHANGED besidesTestability

\* The timer set by addCallback fires: a task of its own, after the microtasks.
TimeoutExpires ==
  /\ microTasks = <<>>
  /\ \E t \in timeouts :
       /\ callbacks' = timeoutFired(callbacks, t.timeoutId)
       /\ timeouts' = timeouts \ {t}
       /\ doneCalls' = Append(doneCalls, [doneCb |-> t.doneCb, timeoutId |-> t.timeoutId,
                                          by |-> "timeout", didWork |-> didWork,
                                          stable |-> isStable(isZoneStable, pendingCount,
                                                              hasPendingMacrotasks)])
  /\ UNCHANGED <<pendingCount, isZoneStable, didWork, taskTrackingZone, hasPendingMacrotasks,
                 microTasks, timeoutIds, whenStableCalls>>
  /\ UNCHANGED besidesTestability

\* NgZone.onUnstable emits.
OnUnstable ==
  /\ didWork' = TRUE
  /\ isZoneStable' = FALSE
  /\ UNCHANGED <<pendingCount, callbacks, taskTrackingZone, hasPendingMacrotasks, timeouts,
                 microTasks, timeoutIds, whenStableCalls, doneCalls>>
  /\ UNCHANGED besidesTestability

\* NgZone.onStable emits: the subscriber schedules a microtask.
OnStable ==
  /\ Len(microTasks) < MaxMicroTasks
  /\ microTasks' = Append(microTasks, "onStable")
  /\ UNCHANGED <<pendingCount, isZoneStable, didWork, callbacks, taskTrackingZone,
                 hasPendingMacrotasks, timeouts, timeoutIds, whenStableCalls, doneCalls>>
  /\ UNCHANGED besidesTestability

\* The zone gets or loses its last macrotask.
OnHasTask ==
  /\ hasPendingMacrotasks' = ~hasPendingMacrotasks
  /\ UNCHANGED <<pendingCount, isZoneStable, didWork, callbacks, taskTrackingZone, timeouts,
                 microTasks, timeoutIds, whenStableCalls, doneCalls>>
  /\ UNCHANGED besidesTestability

\* increasePendingRequestCount()
IncreasePendingRequestCount ==
  /\ pendingCount < MaxPendingRequests
  /\ pendingCount' = pendingCount + 1
  /\ didWork' = TRUE
  /\ UNCHANGED <<isZoneStable, callbacks, taskTrackingZone, hasPendingMacrotasks, timeouts,
                 microTasks, timeoutIds, whenStableCalls, doneCalls>>
  /\ UNCHANGED besidesTestability

\* decreasePendingRequestCount(): throws, the count already lowered, when it falls below zero.
DecreasePendingRequestCount ==
  /\ pendingCount >= 0
  /\ Len(microTasks) < MaxMicroTasks
  /\ pendingCount' = pendingCount - 1
  /\ IF pendingCount' < 0
     THEN UNCHANGED <<callbacks, timeouts, didWork, microTasks>>
     ELSE \E done \in SUBSET Updatable(callbacks) :
            RunCallbacksIfReady(isZoneStable, pendingCount', callbacks, timeouts,
                                microTasks, done)
  /\ UNCHANGED <<isZoneStable, taskTrackingZone, hasPendingMacrotasks, timeoutIds,
                 whenStableCalls, doneCalls>>
  /\ UNCHANGED besidesTestability

\* The first waiting microtask runs: that of the onStable subscriber, or that of
\* _runCallbacksIfReady.
RunMicroTask ==
  /\ microTasks # <<>>
  /\ IF Head(microTasks) = "onStable"
     THEN /\ isZoneStable' = TRUE
          /\ \E done \in SUBSET Updatable(callbacks) :
               RunCallbacksIfReady(TRUE, pendingCount, callbacks, timeouts,
                                   Tail(microTasks), done)
          /\ UNCHANGED doneCalls
     ELSE LET ran == runCallbacks(callbacks, timeouts, doneCalls, didWork)
          IN /\ callbacks' = ran.callbacks
             /\ timeouts' = ran.timeouts
             /\ doneCalls' = ran.doneCalls
             /\ didWork' = FALSE
             /\ microTasks' = Tail(microTasks)
             /\ UNCHANGED isZoneStable
  /\ UNCHANGED <<pendingCount, taskTrackingZone, hasPendingMacrotasks, timeoutIds,
                 whenStableCalls>>
  /\ UNCHANGED besidesTestability

TestabilityNext ==
  \/ WhenStable
  \/ TimeoutExpires
  \/ OnUnstable
  \/ OnStable
  \/ OnHasTask
  \/ IncreasePendingRequestCount
  \/ DecreasePendingRequestCount
  \/ RunMicroTask

\* A Testability as its constructor leaves it.
TestabilityStart(trackingZone) ==
  /\ pendingCount = 0
  /\ isZoneStable = TRUE
  /\ didWork = FALSE
  /\ callbacks = <<>>
  /\ taskTrackingZone = trackingZone
  /\ hasPendingMacrotasks = FALSE
  /\ timeouts = {}
  /\ microTasks = <<>>
  /\ timeoutIds = 0
  /\ whenStableCalls = 0
  /\ doneCalls = <<>>

TestabilityInit == \E trackingZone \in BOOLEAN : TestabilityStart(trackingZone)

TestabilityIdle == TestabilityStart(FALSE)

(***************************************************************************)
(* Part 6: NgCompiler (compiler-cli/src/ngtsc/core/src/compiler.ts) and the *)
(* NgModule decorator handler (src/unnamed/part_005) under it: analysis of  *)
(* the source files, resolution, compilation and resource-only updates.     *)
(* The trait compiler and the component handler are not part of the         *)
(* sources at hand: their steps follow the specification's pipeline         *)
(* Detect, Analyze, Register, Resolve, Compile.                             *)
(***************************************************************************)
\* The program: its source files in order, and the classes of each in order.
SourceFiles == <<"app.module.ts", "app.component.ts", "other.component.ts", "lib.d.ts">>

isDeclarationFile(sf) == sf = "lib.d.ts"

ClassesIn(sf) ==
  CASE sf = "app.module.ts" -> <<"Helper", "AppModule">>
    [] sf = "app.component.ts" -> <<"AppCmp">>
    [] sf = "other.component.ts" -> <<"OtherCmp">>
    [] sf = "lib.d.ts" -> <<"LibDir">>

Classes == {"Helper", "AppModule", "AppCmp", "OtherCmp", "LibDir"}

\* The decorator a handler recognises on the class.
DecoratorOn(c) ==
  CASE c = "AppModule" -> "NgModule"
    [] c \in {"AppCmp", "OtherCmp"} -> "Component"
    [] OTHER -> "none"

Components == {c \in Classes : DecoratorOn(c) = "Component"}

\* The resource files of a component: its templateUrl (<<>> for an inline template) and
\* its styleUrls.
ResourceFiles == {"app.html", "shared.css", "other.css"}

ResourcesOf(c) ==
  CASE c = "AppCmp" -> [template |-> <<"app.html">>, styles |-> {"shared.css"}]
    [] c = "OtherCmp" -> [template |-> <<>>, styles |-> {"shared.css", "other.css"}]
    [] OTHER -> [template |-> <<>>, styles |-> {}]

\* A reference to a class; synthetic when it came out of a foreign function resolver
\* such as that of forwardRef.
Reference(node, synthetic) == [node |-> node, synthetic |-> synthetic]

isSyntheticReference(ref) == ref.synthetic

\* The decorator of AppModule as evaluated.
NgModuleMeta(program) ==
  [declarationRefs |-> <<Reference("AppCmp", program.declSynthetic),
                         Reference("OtherCmp", FALSE)>>,
   importRefs |-> <<Reference("LibModule", program.importSynthetic)>>,
   exportRefs |-> <<Reference("OtherCmp", FALSE)>>]

\* The scope a component gets from outside its own definition when it is remotely scoped.
RemoteScopeOf(c) ==
  IF c = "AppCmp" THEN [directives |-> <<"OtherCmp">>, pipes |-> <<>>]
  ELSE [directives |-> <<>>, pipes |-> <<"LibPipe">>]

\* The programs: the class, if any, whose decorator is malformed, the components whose
\* imports would close a cycle, and where the NgModule has synthetic references.
Programs ==
  [isCore : BOOLEAN,
   malformed : {{}} \cup {{c} : c \in {d \in Classes : DecoratorOn(d) # "none"}},
   cyclic : SUBSET Components,
   declSynthetic : BOOLEAN,
   importSynthetic : BOOLEAN]

\* A trait compiler with nothing analysed and empty registries.
NewTraitCompiler ==
  [state |-> [c \in Classes |-> "Pending"],
   log |-> <<>>,
   diagnostics |-> {},
   metaRegistry |-> {},
   injectableRegistry |-> {},
   referencesRegistry |-> {},
   resourceRegistry |-> {},
   writes |-> {},
   protect |-> FALSE,
   statements |-> <<>>,
   resourceUpdates |-> [c \in Classes |-> 0],
   analysisRecorded |-> FALSE]

\* The phase of a class begins.
Logged(tc, c, phase) == [tc EXCEPT !.log = Append(@, [clazz |-> c, phase |-> phase])]

\* A shared registry is written while the class is in the phase.
Written(tc, registry, c, phase) ==
  [tc EXCEPT !.writes = @ \cup {[registry |-> registry, clazz |-> c, phase |-> phase]}]

\* The class gets a diagnostic in the phase and goes no further.
Diagnosed(tc, c, phase) ==
  [tc EXCEPT !.diagnostics = @ \cup {[clazz |-> c, phase |-> phase]}]

\* CompilationMode and CycleHandlingStrategy as makeCompilation chooses them.
compilationModeOf(opts, isCorePackage) ==
  IF opts.compilationMode = "partial" /\ ~isCorePackage THEN "PARTIAL" ELSE "FULL"

\* A strategy that errors on cycles whatever the mode.
AlwaysError(mode) == "Error"

\* A strategy that scopes remotely whatever the mode.
AlwaysRemoteScoping(mode) == "UseRemoteScoping"

cycleHandlingStrategyOf(mode) ==
  IF mode = "FULL" THEN "UseRemoteScoping" ELSE "Error"

\* makeCompilation(): the LazyCompilationState, as far as the handlers depend on it.
makeCompilation(opts, program) ==
  LET mode == compilationModeOf(opts, program.isCore)
  IN [isCore |-> program.isCore,
      compilationMode |-> mode,
      cycleHandlingStrategy |-> cycleHandlingStrategyOf(mode)]

\* NgModuleDecoratorHandler.analyze: throws for a malformed decorator; otherwise adds the
\* exports to the references registry and keeps, with the analysis, whether a declaration
\* or import reference is synthetic.
ngModuleAnalyze(tc, c, program) ==
  IF c \in program.malformed THEN Diagnosed(tc, c, "Analyze")
  ELSE LET meta == NgModuleMeta(program)
           added == [tc EXCEPT
                       !.referencesRegistry =
                          @ \cup {<<c, meta.exportRefs[i].node>> : i \in DOMAIN meta.exportRefs}]
           remoteScopesMayRequireCycleProtection ==
             \/ \E i \in DOMAIN meta.declarationRefs :
                  isSyntheticReference(meta.declarationRefs[i])
             \/ \E i \in DOMAIN meta.importRefs : isSyntheticReference(meta.importRefs[i])
       IN [Written(added, "referencesRegistry", c, "Analyze") EXCEPT
             !.state[c] = "Analyzed",
             !.protect = remoteScopesMayRequireCycleProtection]

\* The analysis of a component: throws for a malformed decorator, otherwise records the
\* resources of the component.
componentAnalyze(tc, c, program) ==
  IF c \in program.malformed THEN Diagnosed(tc, c, "Analyze")
  ELSE [tc EXCEPT !.state[c] = "Analyzed", !.resourceRegistry = @ \cup {c}]

\* NgModuleDecoratorHandler.register
ngModuleRegister(tc, c) ==
  LET meta == [tc EXCEPT !.metaRegistry = @ \cup {c}, !.injectableRegistry = @ \cup {c}]
  IN [Written(Written(meta, "metaRegistry", c, "Register"),
              "injectableRegistry", c, "Register") EXCEPT !.state[c] = "Registered"]

\* The registration of a component's metadata.
componentRegister(tc, c) ==
  [Written([tc EXCEPT !.metaRegistry = @ \cup {c}], "metaRegistry", c, "Register") EXCEPT
     !.state[c] = "Registered"]

\* A resolution that registers the metadata of the module once more.
ResolveWritingRegistry(tc, c) ==
  [Written(tc, "metaRegistry", c, "Resolve") EXCEPT !.state[c] = "Resolved"]

\* NgModuleDecoratorHandler.resolve: reads the scope of the module and the metadata of
\* its declarations.
ngModuleResolve(tc, c) == [tc EXCEPT !.state[c] = "Resolved"]

\* The resolution of a component: one whose imports would close a cycle is an error
\* under the strategy Error and is remotely scoped under UseRemoteScoping.
componentResolve(tc, c, program, strategy) ==
  IF c \in program.cyclic /\ strategy = "Error" THEN Diagnosed(tc, c, "Resolve")
  ELSE [tc EXCEPT !.state[c] = "Resolved"]

\* LocalModuleScopeRegistry.getRemoteScope: <<>> for null.
getRemoteScope(tc, c, program, strategy) ==
  IF /\ c \in program.cyclic
     /\ strategy = "UseRemoteScoping"
     /\ tc.state[c] \in {"Resolved", "Compiled"}
  THEN <<RemoteScopeOf(c)>>
  ELSE <<>>

LiteralArrayExpr(entries) == [kind |-> "LiteralArrayExpr", entries |-> entries]
FunctionExpr(returned) == [kind |-> "FunctionExpr", entries |-> returned.entries]

\* A scope expression that is wrapped whenever protection may be required.
WrapsEmpty(protect, entries) ==
  IF protect THEN FunctionExpr(LiteralArrayExpr(entries)) ELSE LiteralArrayExpr(entries)

\* directiveExpr and pipesExpr of appendRemoteScopingStatements.
scopeExpr(protect, entries) ==
  IF protect /\ Len(entries) > 0 THEN FunctionExpr(LiteralArrayExpr(entries))
  ELSE LiteralArrayExpr(entries)

RECURSIVE appendRemoteScopingStatements(_, _, _, _, _, _)
\* appendRemoteScopingStatements: one setComponentScope call per declaration with a
\* remote scope.
appendRemoteScopingStatements(ngModuleStatements, tc, declarations, protect, program, strategy) ==
  IF declarations = <<>> THEN ngModuleStatements
  ELSE LET decl == Head(declarations)
           remoteScope == getRemoteScope(tc, decl.node, program, strategy)
           callExpr == [fn |-> "setComponentScope",
                        decl |-> decl.node,
                        directives |-> scopeExpr(protect, remoteScope[1].directives),
                        pipes |-> scopeExpr(protect, remoteScope[1].pipes)]
       IN appendRemoteScopingStatements(
            IF remoteScope # <<>> THEN Append(ngModuleStatements, callExpr)
            ELSE ngModuleStatements,
            tc, Tail(declarations), protect, program, strategy)

\* compileFull: the statements of the NgModule definition, as far as they set scopes.
compileFull(tc, c, program, strategy) ==
  [tc EXCEPT
     !.state[c] = "Compiled",
     !.statements = appendRemoteScopingStatements(
                      <<>>, tc, NgModuleMeta(program).declarationRefs, tc.protect, program,
                      strategy)]

\* compilePartial: no remote scoping.
compilePartial(tc, c) == [tc EXCEPT !.state[c] = "Compiled", !.statements = <<>>]

\* Detect: the class gets a trait when a handler recognises its decorator.
detect(tc, c) ==
  LET begun == Logged(tc, c, "Detect")
  IN IF DecoratorOn(c) = "none" THEN begun ELSE [begun EXCEPT !.state[c] = "Detected"]

\* Analyze, and Register when the analysis gave no fatal diagnostic.
analyzeTrait(tc, c, program) ==
  LET begun == Logged(tc, c, "Analyze")
      analyzed == IF DecoratorOn(c) = "NgModule" THEN ngModuleAnalyze(begun, c, program)
                  ELSE componentAnalyze(begun, c, program)
      registering == Logged(analyzed, c, "Register")
  IN IF analyzed.state[c] # "Analyzed" THEN analyzed
     ELSE IF DecoratorOn(c) = "NgModule" THEN ngModuleRegister(registering, c)
     ELSE componentRegister(registering, c)

RECURSIVE analyzeClasses(_, _, _, _)
\* The classes in order: detected when `detecting`, and those with a trait not yet
\* analysed are analysed when `analysing`.
analyzeClasses(tc, classes, program, steps) ==
  IF classes = <<>> THEN tc
  ELSE LET c == Head(classes)
           detected == IF steps.detecting THEN detect(tc, c) ELSE tc
           analyzed == IF steps.analysing /\ detected.state[c] = "Detected"
                       THEN analyzeTrait(detected, c, program)
                       ELSE detected
       IN analyzeClasses(analyzed, Tail(classes), program, steps)

\* TraitCompiler.analyzeSync(sf)
traitAnalyzeSync(tc, sf, program) ==
  analyzeClasses(tc, ClassesIn(sf), program, [detecting |-> TRUE, analysing |-> TRUE])

\* Has the file a component whose analysis waits for a resource.
needsPreanalysis(sf) ==
  \E i \in DOMAIN ClassesIn(sf) :
    LET c == ClassesIn(sf)[i]
    IN DecoratorOn(c) = "Component"
       /\ (ResourcesOf(c).template # <<>> \/ ResourcesOf(c).styles # {})

\* TraitCompiler.analyzeAsync(sf): the classes are detected at once; the analysis is
\* done at once (undefined is returned) unless it has to wait for resources (a promise).
traitAnalyzeAsync(tc, sf, program) ==
  analyzeClasses(tc, ClassesIn(sf), program,
                 [detecting |-> TRUE, analysing |-> ~needsPreanalysis(sf)])

\* The analysis behind a promise completes.
traitAnalysisCompletes(tc, sf, program) ==
  analyzeClasses(tc, ClassesIn(sf), program, [detecting |-> FALSE, analysing |-> TRUE])

RECURSIVE ClassesOfFiles(_)
\* The classes of the files that are analysed, in order.
ClassesOfFiles(files) ==
  IF files = <<>> THEN <<>>
  ELSE IF isDeclarationFile(Head(files)) THEN ClassesOfFiles(Tail(files))
  ELSE ClassesIn(Head(files)) \o ClassesOfFiles(Tail(files))

RECURSIVE traitResolve(_, _, _, _)
\* TraitCompiler.resolve(): Resolve for every registered class.
traitResolve(tc, classes, program, strategy) ==
  IF classes = <<>> THEN tc
  ELSE LET c == Head(classes)
           begun == Logged(tc, c, "Resolve")
           resolved == IF tc.state[c] # "Registered" THEN tc
                       ELSE IF DecoratorOn(c) = "NgModule" THEN ngModuleResolve(begun, c)
                       ELSE componentResolve(begun, c, program, strategy)
       IN traitResolve(resolved, Tail(classes), program, strategy)

RECURSIVE traitCompile(_, _, _, _)
\* TraitCompiler.compile for every resolved class: the full or the partial compilation
\* of the handler, as the compilation mode says.
traitCompile(tc, classes, program, comp) ==
  IF classes = <<>> THEN tc
  ELSE LET c == Head(classes)
           begun == Logged(tc, c, "Compile")
           compiled ==
             IF tc.state[c] # "Resolved" THEN tc
             ELSE IF DecoratorOn(c) # "NgModule" THEN [begun EXCEPT !.state[c] = "Compiled"]
             ELSE IF comp.compilationMode = "PARTIAL" THEN compilePartial(begun, c)
             ELSE compileFull(begun, c, program, comp.cycleHandlingStrategy)
       IN traitCompile(compiled, Tail(classes), program, comp)

\* resolveCompilation(traitCompiler): traitCompiler.resolve(), then the analysis is
\* recorded as successful.
resolveCompilation(tc, program, comp) ==
  [traitResolve(tc, ClassesOfFiles(SourceFiles), program, comp.cycleHandlingStrategy)
     EXCEPT !.analysisRecorded = TRUE]

RECURSIVE analyzeFiles(_, _, _, _)
\* The loop of analyzeSync over the source files; with `resolving`, a resolution after
\* each file.
analyzeFiles(tc, files, program, resolving) ==
  IF files = <<>> THEN tc
  ELSE LET sf == Head(files)
           analyzed == IF isDeclarationFile(sf) THEN tc ELSE traitAnalyzeSync(tc, sf, program)
           resolved == IF resolving.each
                       THEN resolveCompilation(analyzed, program, resolving.compilation)
                       ELSE analyzed
       IN analyzeFiles(resolved, Tail(files), program, resolving)

\* An analysis that resolves the classes file by file.
AnalyzeSyncResolvingPerFile(tc, program, comp) ==
  analyzeFiles(tc, SourceFiles, program, [each |-> TRUE, compilation |-> comp])

\* analyzeSync(), after makeCompilation()
analyzeSync(tc, program, comp) ==
  resolveCompilation(
    analyzeFiles(tc, SourceFiles, program, [each |-> FALSE, compilation |-> comp]),
    program, comp)

RECURSIVE issueAnalyses(_, _, _)
\* The loop of analyzeAsync over the source files.
issueAnalyses(tc, files, program) ==
  IF files = <<>> THEN tc
  ELSE issueAnalyses(IF isDeclarationFile(Head(files)) THEN tc
                     ELSE traitAnalyzeAsync(tc, Head(files), program),
                     Tail(files), program)

\* The files for which analyzeAsync got a promise.
Issued == {SourceFiles[i] : i \in {j \in DOMAIN SourceFiles :
              ~isDeclarationFile(SourceFiles[j]) /\ needsPreanalysis(SourceFiles[j])}}

\* A join that goes on as soon as one promise is fulfilled.
PromiseAny(settled) ==
  IF \E sf \in DOMAIN settled : settled[sf] = "fulfilled" THEN "fulfilled" ELSE "pending"

\* Promise.all(promises): rejected with the first rejection, fulfilled when all are.
PromiseAll(settled) ==
  IF \E sf \in DOMAIN settled : settled[sf] = "rejected" THEN "rejected"
  ELSE IF \A sf \in DOMAIN settled : settled[sf] = "fulfilled" THEN "fulfilled"
  ELSE "pending"

\* Updating every component that has resources.
AllWithResources(tc, changedResources) == tc.resourceRegistry

\* classesToUpdate of updateWithChangedResources: the components with a changed
\* template file or a changed style file.
classesToUpdate(tc, changedResources) ==
  UNION {{c \in tc.resourceRegistry : ResourcesOf(c).template = <<resourceFile>>}
         \cup {c \in tc.resourceRegistry : resourceFile \in ResourcesOf(c).styles}
         : resourceFile \in changedResources}

\* The state ensureAnalyzed() leaves: analysed on demand.
ensureAnalyzed ==
  IF compilation # <<>> THEN [compilation |-> compilation, traitCompiler |-> traitCompiler]
  ELSE LET comp == makeCompilation(options, inputProgram)
       IN [compilation |-> <<comp>>,
           traitCompiler |-> analyzeSync(traitCompiler, inputProgram, comp)]

\* What a call gave its caller: a compilation handed out by ensureAnalyzed(), or the
\* promise of analyzeAsync() settled, and whether resolveCompilation had completed then.
Observation(api, outcome, tc) ==
  [api |-> api, outcome |-> outcome, resolved |-> tc.analysisRecorded]

NoObservation == [api |-> "none", outcome |-> "none", resolved |-> FALSE]

\* getDiagnostics() and the other readers: ensureAnalyzed().
GetDiagnostics ==
  /\ compilation' = ensureAnalyzed.compilation
  /\ traitCompiler' = ensureAnalyzed.traitCompiler
  /\ observed' = Observation("getDiagnostics", "handed out", traitCompiler')
  /\ UNCHANGED <<options, inputProgram, promises, analyzing, ticket>>
  /\ UNCHANGED besidesNgCompiler

\* prepareEmit() and the emit with its transformers: every resolved class is compiled.
PrepareEmit ==
  /\ compilation' = ensureAnalyzed.compilation
  /\ traitCompiler' = traitCompile(ensureAnalyzed.traitCompiler, ClassesOfFiles(SourceFiles),
                                   inputProgram, ensureAnalyzed.compilation[1])
  /\ observed' = Observation("prepareEmit", "handed out", ensureAnalyzed.traitCompiler)
  /\ UNCHANGED <<options, inputProgram, promises, analyzing, ticket>>
  /\ UNCHANGED besidesNgCompiler

\* analyzeAsync() up to its await; with a compilation at hand it returns at once, and
\* its promise is fulfilled.
AnalyzeAsync ==
  /\ IF compilation = <<>>
     THEN /\ compilation' = <<makeCompilation(options, inputProgram)>>
          /\ traitCompiler' = issueAnalyses(traitCompiler, SourceFiles, inputProgram)
          /\ promises' = [sf \in Issued |-> "pending"]
          /\ analyzing' = "awaiting"
          /\ UNCHANGED observed
     ELSE /\ observed' = Observation("analyzeAsync", "fulfilled", traitCompiler)
          /\ UNCHANGED <<compilation, traitCompiler, promises, analyzing>>
  /\ UNCHANGED <<options, inputProgram, ticket>>
  /\ UNCHANGED besidesNgCompiler

\* One of the analyses issued settles: it completes, or its resource fails to load.
AnalysisSettles ==
  /\ \E sf \in DOMAIN promises :
       /\ promises[sf] = "pending"
       /\ \/ /\ promises' = [promises EXCEPT ![sf] = "fulfilled"]
             /\ traitCompiler' = traitAnalysisCompletes(traitCompiler, sf, inputProgram)
          \/ /\ promises' = [promises EXCEPT ![sf] = "rejected"]
             /\ UNCHANGED traitCompiler
  /\ UNCHANGED <<options, inputProgram, compilation, analyzing, ticket, observed>>
  /\ UNCHANGED besidesNgCompiler

\* analyzeAsync() after its await: resolveCompilation, or the rejection passed on.
AnalysesJoined ==
  /\ analyzing = "awaiting"
  /\ PromiseAll(promises) # "pending"
  /\ IF PromiseAll(promises) = "fulfilled"
     THEN /\ traitCompiler' = resolveCompilation(traitCompiler, inputProgram, compilation[1])
          /\ analyzing' = "done"
          /\ observed' = Observation("analyzeAsync", "fulfilled", traitCompiler')
     ELSE /\ analyzing' = "rejected"
          /\ observed' = Observation("analyzeAsync", "rejected", traitCompiler)
          /\ UNCHANGED traitCompiler
  /\ UNCHANGED <<options, inputProgram, compilation, promises, ticket>>
  /\ UNCHANGED besidesNgCompiler

\* fromTicket with an IncrementalResource ticket: updateWithChangedResources on the
\* compiler of the ticket, which is returned.
UpdateWithChangedResources ==
  /\ ticket.count < MaxTickets
  /\ \E modifiedResourceFiles \in SUBSET ResourceFiles :
       /\ ticket' = [count |-> ticket.count + 1,
                     modifiedResourceFiles |-> modifiedResourceFiles]
       /\ IF compilation = <<>> THEN UNCHANGED traitCompiler
          ELSE traitCompiler' =
                 [traitCompiler EXCEPT
                    !.resourceUpdates =
                       [c \in Classes |->
                          IF c \in classesToUpdate(traitCompiler, modifiedResourceFiles)
                          THEN @[c] + 1 ELSE @[c]]]
  /\ UNCHANGED <<options, inputProgram, compilation, promises, analyzing, observed>>
  /\ UNCHANGED besidesNgCompiler

NgCompilerNext ==
  \/ GetDiagnostics
  \/ PrepareEmit
  \/ AnalyzeAsync
  \/ AnalysisSettles
  \/ AnalysesJoined
  \/ UpdateWithChangedResources

\* A new NgCompiler for the program, nothing analysed.
NgCompilerStart(opts, program) ==
  /\ options = opts
  /\ inputProgram = program
  /\ compilation = <<>>
  /\ traitCompiler = NewTraitCompiler
  /\ promises = << >>
  /\ analyzing = "idle"
  /\ ticket = [count |-> 0, modifiedResourceFiles |-> {}]
  /\ observed = NoObservation

NgCompilerInit ==
  \E mode \in {"full", "partial"}, program \in Programs :
    NgCompilerStart([compilationMode |-> mode], program)

NgCompilerIdle ==
  NgCompilerStart([compilationMode |-> "full"],
                  [isCore |-> FALSE, malformed |-> {}, cyclic |-> {},
                   declSynthetic |-> FALSE, importSynthetic |-> FALSE])

(***************************************************************************)
(* Part 7: the scope of an NgModule.  The metadata is registered by the     *)
(* NgModule handler (src/unnamed/part_005, lines 461-487); the scope        *)
(* registry that computes getScopeOfModule is not part of the sources at    *)
(* hand: it is the traversal of imports and exports that the specification  *)
(* describes, one module of the traversal per step.                         *)
(***************************************************************************)
Modules == {"A", "B", "C"}

\* The declarations of the modules: every class declared by two modules.
DeclarationsOf(m) ==
  CASE m = "A" -> <<"X", "Y">>
    [] m = "B" -> <<"Y", "Z">>
    [] m = "C" -> <<"Z", "X">>

\* The analysis of an NgModule: declarations, imports and exports as references.
NgModuleAnalysis(m, imports, exports) ==
  [declarations |-> DeclarationsOf(m), importRefs |-> imports, exports |-> exports]

\* The lists of modules a module may import, and what it may export: its first
\* declaration, and a module as well, imported or not.
ImportLists(m) ==
  CASE m = "A" -> {<<>>, <<"B">>, <<"B", "C">>}
    [] m = "B" -> {<<>>, <<"A">>, <<"C", "A">>}
    [] m = "C" -> {<<>>, <<"A">>}

ExportLists(m) ==
  CASE m = "A" -> {<<"X">>, <<"X", "C">>}
    [] m = "B" -> {<<>>, <<"Y", "C">>}
    [] m = "C" -> {<<>>, <<"Z">>}

ModuleGraphs ==
  {g \in [Modules -> [declarations : {DeclarationsOf(m) : m \in Modules},
                      importRefs : UNION {ImportLists(m) : m \in Modules},
                      exports : UNION {ExportLists(m) : m \in Modules}]] :
     \A m \in Modules :
       /\ g[m].declarations = DeclarationsOf(m)
       /\ g[m].importRefs \in ImportLists(m)
       /\ g[m].exports \in ExportLists(m)}

\* A registration that takes the imports for the exports.
RegisterImportsAsExports(analysed) ==
  [declarations |-> analysed.declarations,
   imports |-> analysed.importRefs,
   exports |-> analysed.importRefs]

\* registerNgModuleMetadata as register calls it: the NgModuleMeta made of the analysis.
registerNgModuleMetadata(analysed) ==
  [declarations |-> analysed.declarations,
   imports |-> analysed.importRefs,
   exports |-> analysed.exports]

RECURSIVE addAll(_, _)
\* The references are added to the scope, those already in it left out.
addAll(scope, refs) ==
  IF refs = <<>> THEN scope
  ELSE addAll(IF \E i \in DOMAIN scope : scope[i] = Head(refs) THEN scope
              ELSE Append(scope, Head(refs)),
              Tail(refs))

\* What a module gives to a scope: its declarations and the classes it exports.
contributed(meta) ==
  meta.declarations \o SelectSeq(meta.exports, LAMBDA ref : ref \notin Modules)

\* The modules a module leads to: those it imports and those it exports.
next(meta) == meta.imports \o SelectSeq(meta.exports, LAMBDA ref : ref \in Modules)

NoTraversal == [start |-> <<>>, stack |-> <<>>, visited |-> {}, scope |-> <<>>, cycle |-> FALSE]

\* The NgModule handler registers the metadata of a module.
RegisterNgModule ==
  /\ \E m \in Modules :
       /\ moduleRegistry[m] = <<>>
       /\ moduleRegistry' =
            [moduleRegistry EXCEPT ![m] = <<registerNgModuleMetadata(ngModules[m])>>]
  /\ UNCHANGED <<ngModules, scopeMode, traversal, scopeCache, scopeDiagnostics, remoteScopes>>
  /\ UNCHANGED besidesScope

\* getScopeOfModule(m), called by resolve once every module is registered: the cached
\* scope, or a traversal that begins at the module.
GetScopeOfModule ==
  /\ \A m \in Modules : moduleRegistry[m] # <<>>
  /\ traversal.start = <<>>
  /\ \E m \in Modules :
       traversal' =
         IF scopeCache[m] # <<>> THEN traversal
         ELSE [start |-> <<m>>,
               stack |-> <<[module |-> m, child |-> 1]>>,
               visited |-> {m},
               scope |-> addAll(<<>>, contributed(moduleRegistry[m][1])),
               cycle |-> FALSE]
  /\ UNCHANGED <<ngModules, scopeMode, moduleRegistry, scopeCache, scopeDiagnostics,
                 remoteScopes>>
  /\ UNCHANGED besidesScope

\* One step of the traversal: the next module that the module on top of the stack leads
\* to.  A module on the stack is a cycle; a module seen before is not entered again.
ScopeStep ==
  /\ traversal.stack # <<>>
  /\ LET depth == Len(traversal.stack)
         top == traversal.stack[depth]
         children == next(moduleRegistry[top.module][1])
         below == SubSeq(traversal.stack, 1, depth - 1)
         advanced == Append(below, [top EXCEPT !.child = @ + 1])
     IN IF top.child > Len(children)
        THEN traversal' = [traversal EXCEPT !.stack = below]
        ELSE LET m == children[top.child]
             IN IF \E i \in 1..depth : traversal.stack[i].module = m
                THEN traversal' = [traversal EXCEPT !.stack = advanced, !.cycle = TRUE]
                ELSE IF m \in traversal.visited
                THEN traversal' = [traversal EXCEPT !.stack = advanced]
                ELSE traversal' =
                       [traversal EXCEPT
                          !.stack = Append(advanced, [module |-> m, child |-> 1]),
                          !.visited = @ \cup {m},
                          !.scope = addAll(@, contributed(moduleRegistry[m][1]))]
  /\ UNCHANGED <<ngModules, scopeMode, moduleRegistry, scopeCache, scopeDiagnostics,
                 remoteScopes>>
  /\ UNCHANGED besidesScope

\* The traversal is over: the scope is cached; for a cycle the components of the module
\* are remotely scoped or the module gets its cycle diagnostic, as the strategy says.
ScopeFinish ==
  /\ traversal.start # <<>>
  /\ traversal.stack = <<>>
  /\ LET m == traversal.start[1]
         strategy == cycleHandlingStrategyOf(scopeMode)
     IN /\ scopeCache' = [scopeCache EXCEPT ![m] = <<[scope |-> traversal.scope,
                                                      cycle |-> traversal.cycle]>>]
        /\ remoteScopes' =
             IF traversal.cycle /\ strategy = "UseRemoteScoping"
             THEN remoteScopes \cup {DeclarationsOf(m)[i] : i \in DOMAIN DeclarationsOf(m)}
             ELSE remoteScopes
        /\ scopeDiagnostics' =
             IF traversal.cycle /\ strategy = "Error"
             THEN Append(scopeDiagnostics, [module |-> m, code |-> "cycle"])
             ELSE scopeDiagnostics
  /\ traversal' = NoTraversal
  /\ UNCHANGED <<ngModules, scopeMode, moduleRegistry>>
  /\ UNCHANGED besidesScope

ScopeNext ==
  \/ RegisterNgModule
  \/ GetScopeOfModule
  \/ ScopeStep
  \/ ScopeFinish

\* The registries of a new compilation of the modules.
ScopeStart(graph, mode) ==
  /\ ngModules = graph
  /\ scopeMode = mode
  /\ moduleRegistry = [m \in Modules |-> <<>>]
  /\ traversal = NoTraversal
  /\ scopeCache = [m \in Modules |-> <<>>]
  /\ scopeDiagnostics = <<>>
  /\ remoteScopes = {}

ScopeInit == \E graph \in ModuleGraphs, mode \in {"FULL", "PARTIAL"} : ScopeStart(graph, mode)

ScopeIdle ==
  ScopeStart([m \in Modules |-> NgModuleAnalysis(m, <<>>, <<>>)], "FULL")

(***************************************************************************)
(* Part 8: the loop of R3ViewContainerRef.clear() (src/unnamed/part_006,    *)
(* lines 1017-1021), one remove() per step, with destroy hooks that call    *)
(* back into the container: a hook removes the last view, or creates an     *)
(* embedded view.  A view made by a hook gets a name that no view on hand   *)
(* has; the name of a view that is destroyed and gone is used again.        *)
(***************************************************************************)
\* The views attached when clear() is called, and names enough for those the hooks make:
\* a destroyed view is replaced by one view at most, so the container never grows.
ClearViews == 1..(2 * MaxAttached + 1)

\* What a destroy hook does with the container of its view.
DestroyHooks == {"none", "remove", "createEmbeddedView"}

ClearState ==
  [slots |-> slots, destroyHook |-> destroyHook, destroyCount |-> destroyCount,
   destroying |-> {}]

\* createEmbeddedView(templateRef) called by a hook: a new view at the end of the
\* container, with the hook of the template's directive.
createdByHook(st, hookOfNew) ==
  LET free == {v \in ClearViews \ attached :
                 v \notin st.destroying /\ ~(\E i \in DOMAIN st.slots : st.slots[i] = v)}
      new == CHOOSE v \in free : \A u \in free : v <= u
  IN IF free = {} THEN st
     ELSE [st EXCEPT !.slots = Append(@, new),
                     !.destroyHook[new] = hookOfNew,
                     !.destroyCount[new] = 0]

RECURSIVE removeLast(_, _)
RECURSIVE destroyed(_, _, _)

\* destroyLView of a view taken out of the container: its destroy hooks run.
destroyed(st, v, hookOfNew) ==
  LET marked == [st EXCEPT !.destroyCount[v] = @ + 1, !.destroying = @ \cup {v}]
      hooked == CASE st.destroyHook[v] = "remove" -> removeLast(marked, hookOfNew)
                  [] st.destroyHook[v] = "createEmbeddedView" -> createdByHook(marked, hookOfNew)
                  [] OTHER -> marked
  IN [hooked EXCEPT !.destroying = @ \ {v}]

\* A removal that takes the view out of the container and does not destroy it.
RemoveLastDetaching(st, hookOfNew) ==
  IF st.slots = <<>> THEN st ELSE [st EXCEPT !.slots = SubSeq(@, 1, Len(@) - 1)]

\* remove(this.length - 1), and remove() as a hook calls it: the last view leaves the
\* container and the view-ref array, then it is destroyed.
removeLast(st, hookOfNew) ==
  IF st.slots = <<>> THEN st
  ELSE destroyed([st EXCEPT !.slots = SubSeq(@, 1, Len(@) - 1)],
                 st.slots[Len(st.slots)], hookOfNew)

\* clear() is called.
ClearCalled ==
  /\ clearing = "idle"
  /\ clearing' = "running"
  /\ attached' = {slots[i] : i \in DOMAIN slots}
  /\ UNCHANGED <<slots, destroyHook, spawnHook, destroyCount>>
  /\ UNCHANGED besidesClear

\* One round of the loop of clear(): this.length > 0, so remove(this.length - 1).
ClearRemoves ==
  /\ clearing = "running"
  /\ Len(slots) > 0
  /\ LET removed == removeLast(ClearState, spawnHook)
     IN /\ slots' = removed.slots
        /\ destroyHook' = removed.destroyHook
        /\ destroyCount' = removed.destroyCount
  /\ UNCHANGED <<spawnHook, attached, clearing>>
  /\ UNCHANGED besidesClear

\* The loop of clear() ends: this.length is 0.
ClearReturns ==
  /\ clearing = "running"
  /\ Len(slots) = 0
  /\ clearing' = "returned"
  /\ UNCHANGED <<slots, destroyHook, spawnHook, destroyCount, attached>>
  /\ UNCHANGED besidesClear

ClearNext ==
  \/ ClearCalled
  \/ ClearRemoves
  \/ ClearReturns

\* A container with the given views, clear() not yet called.
ClearStart(views, hooks, hookOfNew) ==
  /\ slots = views
  /\ destroyHook = hooks
  /\ spawnHook = hookOfNew
  /\ destroyCount = [v \in ClearViews |-> 0]
  /\ attached = {}
  /\ clearing = "idle"

\* The container holds up to MaxAttached views; the other names are not in use.
ClearInit ==
  \E n \in 0..MaxAttached, hooks \in [ClearViews -> DestroyHooks],
     hookOfNew \in {"none", "createEmbeddedView"} :
    /\ \A v \in ClearViews : v > n => hooks[v] = "none"
    /\ ClearStart([i \in 1..n |-> i], hooks, hookOfNew)

ClearIdle == ClearStart(<<>>, [v \in ClearViews |-> "none"], "none")

(***************************************************************************)
(* Part 9: TestBedImpl (src/unnamed/part_007): the options of a test, the   *)
(* global strict modes that configureTestingModule sets, and what           *)
(* resetTestingModule undoes and tears down.                                *)
(***************************************************************************)
\* An optional boolean: <<>> is undefined.
OptionalBoolean == {<<>>, <<TRUE>>, <<FALSE>>}

\* ModuleTeardownOptions|undefined.
TeardownOptions ==
  {<<>>} \cup {<<[destroyAfterEach |-> d, rethrowErrors |-> r]>> :
                 d \in BOOLEAN, r \in OptionalBoolean}

\* The defaults of test_bed_common.
TEARDOWN_TESTING_MODULE_ON_DESTROY_DEFAULT == TRUE
THROW_ON_UNKNOWN_ELEMENTS_DEFAULT == FALSE
THROW_ON_UNKNOWN_PROPERTIES_DEFAULT == FALSE

\* a ?? b
nullish(a, b) == IF a = <<>> THEN b ELSE a[1]

\* The options of a test module that the model tells apart.
TestModuleMetadata ==
  [teardown : {t \in TeardownOptions :
                 t # <<>> => (t[1].rethrowErrors = <<>> \/ t[1].rethrowErrors[1] # t[1].destroyAfterEach)},
   errorOnUnknownElements : OptionalBoolean,
   errorOnUnknownProperties : {<<>>, <<TRUE>>}]

\* The options of initTestEnvironment that the model tells apart.
TestEnvironmentOptions ==
  [teardown : {<<>>, <<[destroyAfterEach |-> FALSE, rethrowErrors |-> <<>>]>>},
   errorOnUnknownElements : {<<>>, <<TRUE>>},
   errorOnUnknownProperties : {<<>>}]

NoInstanceOptions ==
  [teardown |-> <<>>, errorOnUnknownElements |-> <<>>, errorOnUnknownProperties |-> <<>>]

shouldTearDownTestingModule(instanceTeardown, environmentTeardown) ==
  IF instanceTeardown # <<>> THEN instanceTeardown[1].destroyAfterEach
  ELSE IF environmentTeardown # <<>> THEN environmentTeardown[1].destroyAfterEach
  ELSE TEARDOWN_TESTING_MODULE_ON_DESTROY_DEFAULT

shouldRethrowTeardownErrors(instanceTeardown, environmentTeardown) ==
  IF instanceTeardown = <<>> /\ environmentTeardown = <<>>
  THEN TEARDOWN_TESTING_MODULE_ON_DESTROY_DEFAULT
  ELSE nullish(IF instanceTeardown = <<>> THEN <<>> ELSE instanceTeardown[1].rethrowErrors,
               nullish(IF environmentTeardown = <<>> THEN <<>>
                       ELSE environmentTeardown[1].rethrowErrors,
                       shouldTearDownTestingModule(instanceTeardown, environmentTeardown)))

shouldThrowErrorOnUnknownElements(instance, environment) ==
  nullish(instance.errorOnUnknownElements,
          nullish(environment.errorOnUnknownElements, THROW_ON_UNKNOWN_ELEMENTS_DEFAULT))

shouldThrowErrorOnUnknownProperties(instance, environment) ==
  nullish(instance.errorOnUnknownProperties,
          nullish(environment.errorOnUnknownProperties, THROW_ON_UNKNOWN_PROPERTIES_DEFAULT))

\* A variant of destroyActiveFixtures: it stops at the first fixture whose destroy throws.
DestroyUntilFirstError(fixtures, rethrow) ==
  LET failing == {i \in 1..Len(fixtures) : fixtures[i].destroyThrows}
      first == IF failing = {} THEN Len(fixtures)
               ELSE CHOOSE i \in failing : \A j \in failing : i <= j
  IN [destroyCalls |-> first,
      errorCount |-> IF failing = {} THEN 0 ELSE 1,
      throws |-> failing # {} /\ rethrow]

\* destroyActiveFixtures: destroy is called on every fixture, the errors are counted, and
\* one error is thrown at the end when errors are to be rethrown.
destroyActiveFixtures(fixtures, rethrow) ==
  LET errorCount == Cardinality({i \in 1..Len(fixtures) : fixtures[i].destroyThrows})
  IN [destroyCalls |-> Len(fixtures),
      errorCount |-> errorCount,
      throws |-> errorCount > 0 /\ rethrow]

\* tearDownTestingModule: nothing without a module ref; else the module ref is destroyed,
\* its error rethrown or logged, and the root elements are removed in any case.
tearDownTestingModule(moduleRef, rethrow) ==
  IF moduleRef = <<>>
  THEN [destroyCalled |-> FALSE, rootElementsRemoved |-> FALSE, throws |-> FALSE]
  ELSE [destroyCalled |-> TRUE, rootElementsRemoved |-> TRUE,
        throws |-> moduleRef[1].destroyThrows /\ rethrow]

\* The getter testModuleRef: the module is finalized at its first use.
finalize(moduleRef, destroyThrows) ==
  IF moduleRef = <<>> THEN <<[destroyThrows |-> destroyThrows]>> ELSE moduleRef

\* configureTestingModule(moduleDef); it throws, and changes nothing, once the test module
\* is instantiated.
ConfigureTestingModule ==
  /\ testModuleRef = <<>>
  /\ testRun.configureCalls < MaxConfigureCalls
  /\ \E moduleDef \in TestModuleMetadata :
       /\ instanceOptions' = moduleDef
       /\ previousOptions' = [elements |-> <<unknownStrictMode.elements>>,
                              properties |-> <<unknownStrictMode.properties>>]
       /\ unknownStrictMode' =
            [elements |-> shouldThrowErrorOnUnknownElements(moduleDef, environmentOptions),
             properties |-> shouldThrowErrorOnUnknownProperties(moduleDef, environmentOptions)]
  /\ testRun' = [configureCalls |-> testRun.configureCalls + 1,
                 before |-> IF testRun.configureCalls = 0 THEN <<unknownStrictMode>>
                            ELSE testRun.before]
  /\ lastReset' = <<>>
  /\ UNCHANGED <<environmentOptions, activeFixtures, testModuleRef>>
  /\ UNCHANGED besidesTestBed

\* inject(token): the test module is instantiated.
TestBedInject ==
  /\ testModuleRef = <<>>
  /\ \E destroyThrows \in BOOLEAN : testModuleRef' = finalize(testModuleRef, destroyThrows)
  /\ lastReset' = <<>>
  /\ UNCHANGED <<unknownStrictMode, environmentOptions, instanceOptions, previousOptions,
                 activeFixtures, testRun>>
  /\ UNCHANGED besidesTestBed

\* createComponent(type): the test module is instantiated if it was not, the fixture made
\* and remembered.
CreateComponent ==
  /\ Len(activeFixtures) < MaxFixtures
  /\ \E moduleDestroyThrows \in BOOLEAN, destroyThrows \in BOOLEAN :
       /\ testModuleRef' = finalize(testModuleRef, moduleDestroyThrows)
       /\ activeFixtures' = Append(activeFixtures, [destroyThrows |-> destroyThrows])
  /\ lastReset' = <<>>
  /\ UNCHANGED <<unknownStrictMode, environmentOptions, instanceOptions, previousOptions,
                 testRun>>
  /\ UNCHANGED besidesTestBed

\* resetTestingModule(): the strict modes are set from the stored previous values, then
\* try { destroyActiveFixtures } finally { try { tear down, if it is to be done } finally
\* { clear the module ref and the options of the instance } }.
ResetTestingModule ==
  LET rethrow == shouldRethrowTeardownErrors(instanceOptions.teardown,
                                             environmentOptions.teardown)
      tearDown == shouldTearDownTestingModule(instanceOptions.teardown,
                                              environmentOptions.teardown)
      fixturesDone == destroyActiveFixtures(activeFixtures, rethrow)
      moduleDone == IF tearDown THEN tearDownTestingModule(testModuleRef, rethrow)
                    ELSE tearDownTestingModule(<<>>, rethrow)
  IN /\ unknownStrictMode' =
          [elements |-> nullish(previousOptions.elements, THROW_ON_UNKNOWN_ELEMENTS_DEFAULT),
           properties |-> nullish(previousOptions.properties,
                                  THROW_ON_UNKNOWN_PROPERTIES_DEFAULT)]
     /\ activeFixtures' = <<>>
     /\ testModuleRef' = <<>>
     /\ instanceOptions' = NoInstanceOptions
     /\ testRun' = [configureCalls |-> 0, before |-> <<>>]
     /\ lastReset' = <<[configureCalls |-> testRun.configureCalls,
                        before |-> testRun.before,
                        modeAtReset |-> unknownStrictMode,
                        fixtures |-> activeFixtures,
                        moduleRef |-> testModuleRef,
                        rethrow |-> rethrow,
                        tearDown |-> tearDown,
                        destroyCalls |-> fixturesDone.destroyCalls,
                        moduleDestroyCalled |-> moduleDone.destroyCalled,
                        rootElementsRemoved |-> moduleDone.rootElementsRemoved,
                        thrown |-> fixturesDone.throws \/ moduleDone.throws]>>
     /\ UNCHANGED <<environmentOptions, previousOptions>>
     /\ UNCHANGED besidesTestBed

TestBedNext ==
  \/ ConfigureTestingModule
  \/ TestBedInject
  \/ CreateComponent
  \/ ResetTestingModule

\* A TestBed after initTestEnvironment(ngModule, platform, options).
TestBedStart(envOptions) ==
  /\ unknownStrictMode = [elements |-> FALSE, properties |-> FALSE]
  /\ environmentOptions = envOptions
  /\ instanceOptions = NoInstanceOptions
  /\ previousOptions = [elements |-> <<>>, properties |-> <<>>]
  /\ activeFixtures = <<>>
  /\ testModuleRef = <<>>
  /\ testRun = [configureCalls |-> 0, before |-> <<>>]
  /\ lastReset = <<>>

TestBedInit == \E envOptions \in TestEnvironmentOptions : TestBedStart(envOptions)

TestBedIdle == TestBedStart(NoInstanceOptions)

(***************************************************************************)
(* Specifications: one per part, the other parts' state left as it starts.  *)
(***************************************************************************)
vars ==
  <<vcrVars, diVars, listenerVars, compilerVars, testabilityVars, ngCompilerVars,
    scopeVars, clearVars, testBedVars>>

\* The fixed state of a part in the specifications of the other parts.
VcrIdle ==
  /\ VcrInit
  /\ ngDevMode
  /\ \A c \in Containers : hasNativeParent[c]

ListenerIdle ==
  ListenerStart([n \in Nodes |-> [isElement |-> TRUE, isDirectiveHost |-> TRUE, outputs |-> {}]])

Init == VcrInit /\ DiStart(0) /\ ListenerIdle /\ CompilerIdle /\ TestabilityIdle /\ NgCompilerIdle /\ ScopeIdle /\ ClearIdle /\ TestBedIdle

\* The view container.
Spec == Init /\ [][VcrNext]_vars

InitProviders ==
  /\ VcrIdle
  /\ \E start \in 0..MaxStartIndex : DiStart(start)
  /\ ListenerIdle
  /\ CompilerIdle
  /\ TestabilityIdle /\ NgCompilerIdle /\ ScopeIdle /\ ClearIdle /\ TestBedIdle

\* Provider resolution.
SpecProviders == InitProviders /\ [][DiNext]_vars

InitListener == VcrIdle /\ DiStart(0) /\ ListenerInit /\ CompilerIdle /\ TestabilityIdle /\ NgCompilerIdle /\ ScopeIdle /\ ClearIdle /\ TestBedIdle

\* Listener registration.
SpecListener == InitListener /\ [][ListenerNext]_vars

InitCtor == VcrIdle /\ DiStart(0) /\ ListenerIdle /\ CtorInit /\ TestabilityIdle /\ NgCompilerIdle /\ ScopeIdle /\ ClearIdle /\ TestBedIdle

\* Constructor dependencies of a class.
SpecCtor == InitCtor /\ [][GetConstructorDependencies]_vars

InitDirective == VcrIdle /\ DiStart(0) /\ ListenerIdle /\ DirectiveInit /\ TestabilityIdle /\ NgCompilerIdle /\ ScopeIdle /\ ClearIdle /\ TestBedIdle

\* Analysis of a directive or component and resolution of its NgModule.
SpecDirective == InitDirective /\ [][DirectiveNext]_vars

InitFacade ==
  /\ VcrIdle /\ DiStart(0) /\ ListenerIdle /\ FacadeInit /\ TestabilityIdle
  /\ NgCompilerIdle /\ ScopeIdle /\ ClearIdle /\ TestBedIdle

\* The same class in the JIT facade and in the static analysis.
SpecFacade == InitFacade /\ [][FacadeNext]_vars

InitTestability ==
  VcrIdle /\ DiStart(0) /\ ListenerIdle /\ CompilerIdle /\ TestabilityInit /\ NgCompilerIdle /\ ScopeIdle /\ ClearIdle /\ TestBedIdle

\* The callbacks waiting for stability.
SpecTestability == InitTestability /\ [][TestabilityNext]_vars

InitNgCompiler ==
  VcrIdle /\ DiStart(0) /\ ListenerIdle /\ CompilerIdle /\ TestabilityIdle /\ NgCompilerInit
  /\ ScopeIdle /\ ClearIdle /\ TestBedIdle

\* The compilation pipeline of one NgCompiler.
SpecNgCompiler == InitNgCompiler /\ [][NgCompilerNext]_vars

InitScope ==
  /\ VcrIdle /\ DiStart(0) /\ ListenerIdle /\ CompilerIdle /\ TestabilityIdle
  /\ NgCompilerStart([compilationMode |-> "full"],
                     [isCore |-> FALSE, malformed |-> {}, cyclic |-> {},
                      declSynthetic |-> FALSE, importSynthetic |-> FALSE])
  /\ ScopeInit /\ ClearIdle /\ TestBedIdle

\* The scopes of the NgModules.
SpecScope == InitScope /\ [][ScopeNext]_vars

\* The same, a traversal that has begun going on to its end.
SpecScopeFair == SpecScope /\ WF_vars(ScopeStep) /\ WF_vars(ScopeFinish)

InitClear ==
  /\ VcrIdle /\ DiStart(0) /\ ListenerIdle /\ CompilerIdle /\ TestabilityIdle
  /\ NgCompilerStart([compilationMode |-> "full"],
                     [isCore |-> FALSE, malformed |-> {}, cyclic |-> {},
                      declSynthetic |-> FALSE, importSynthetic |-> FALSE])
  /\ ScopeIdle /\ ClearInit /\ TestBedIdle

\* clear() on a view container whose views have destroy hooks.
SpecClear == InitClear /\ [][ClearNext]_vars

\* The same, the loop of clear() going on while it can.
SpecClearFair == SpecClear /\ WF_vars(ClearRemoves) /\ WF_vars(ClearReturns)

(***************************************************************************)
(* Properties of clear().                                                   *)
(***************************************************************************)
\* What clear() leaves when it returns: no view in the container, and the destroy hooks
\* of every view attached at the call run exactly once.
ClearedOnce ==
  clearing = "returned" =>
    /\ Len(slots) = 0
    /\ \A v \in attached : destroyCount[v] = 1

\* C37 as stated: clear() returns, whatever the destroy hooks remove or insert.
C37_ClearAlwaysReturns ==
  /\ []ClearedOnce
  /\ (clearing = "running") ~> (clearing = "returned")

\* C37: clear() leaves length 0, every view attached at the call destroyed exactly once,
\* also when a destroy hook re-enters the container and removes or inserts views; it
\* returns when the views that the hooks insert have no hook that inserts a view again.
C37_ClearReturnsUnlessRespawning ==
  /\ []ClearedOnce
  /\ (clearing = "running" /\ spawnHook = "none") ~> (clearing = "returned")

\* clear() has returned from a container of two views: the hook of one removed the
\* other, whose hook created a view, which clear() then removed as well.
C37_Witness ==
  /\ clearing = "returned"
  /\ attached = {1, 2}
  /\ destroyHook[2] = "remove"
  /\ destroyHook[1] = "createEmbeddedView"
  /\ spawnHook = "none"
  /\ \E v \in ClearViews \ attached : destroyCount[v] = 1
  /\ ClearedOnce

InitTestBed ==
  /\ VcrIdle /\ DiStart(0) /\ ListenerIdle /\ CompilerIdle /\ TestabilityIdle
  /\ NgCompilerIdle /\ ScopeIdle /\ ClearIdle /\ TestBedInit

\* The tests of one TestBed.
SpecTestBed == InitTestBed /\ [][TestBedNext]_vars

(***************************************************************************)
(* Properties of TestBed.                                                   *)
(***************************************************************************)
\* C38: after resetTestingModule the global unknown-element and unknown-property strict
\* modes are the ones that held before the first configureTestingModule call of the test,
\* however many calls the test made.
C38_StrictModesRestored ==
  (lastReset # <<>> /\ lastReset[1].configureCalls >= 1)
    => unknownStrictMode = lastReset[1].before[1]

\* A reset after one configureTestingModule call that had changed a strict mode, which the
\* reset has put back.
C38_Witness ==
  /\ lastReset # <<>>
  /\ lastReset[1].configureCalls = 1
  /\ lastReset[1].modeAtReset # lastReset[1].before[1]
  /\ unknownStrictMode = lastReset[1].before[1]

\* A step of the teardown in the last reset threw: the destroy of a fixture, or the destroy
\* of the test module when it was called.
teardownFailed(r) ==
  \/ \E i \in 1..Len(r.fixtures) : r.fixtures[i].destroyThrows
  \/ (r.moduleDestroyCalled /\ r.moduleRef[1].destroyThrows)

\* What resetTestingModule leaves and runs whatever throws: no active fixtures, no module
\* ref, no options of the instance, destroy called on every fixture, the module torn down
\* when it is to be, the root elements removed with it.
resetCleanedUp(r) ==
  /\ activeFixtures = <<>>
  /\ testModuleRef = <<>>
  /\ instanceOptions = NoInstanceOptions
  /\ r.destroyCalls = Len(r.fixtures)
  /\ r.moduleDestroyCalled = (r.tearDown /\ r.moduleRef # <<>>)
  /\ r.rootElementsRemoved = r.moduleDestroyCalled

\* C39 as stated: resetTestingModule cleans up whatever throws, skips no step, and
\* propagates an error to its caller whenever a step threw.
C39_ErrorAlwaysPropagated ==
  lastReset # <<>> =>
    /\ resetCleanedUp(lastReset[1])
    /\ teardownFailed(lastReset[1]) => lastReset[1].thrown

\* C39: resetTestingModule cleans up whatever throws and skips no step; an error reaches
\* its caller exactly when a step threw and teardown errors are to be rethrown.
C39_CleanedUpAndRethrownIfAsked ==
  lastReset # <<>> =>
    /\ resetCleanedUp(lastReset[1])
    /\ lastReset[1].thrown = (teardownFailed(lastReset[1]) /\ lastReset[1].rethrow)

\* A reset in which the destroy of the first of two fixtures and of the module threw, and
\* the caller got an error.
C39_Witness ==
  /\ lastReset # <<>>
  /\ Len(lastReset[1].fixtures) = 2
  /\ lastReset[1].fixtures[1].destroyThrows
  /\ lastReset[1].moduleDestroyCalled
  /\ lastReset[1].moduleRef[1].destroyThrows
  /\ lastReset[1].thrown
  /\ activeFixtures = <<>>


(***************************************************************************)
(* Properties of provider resolution.                                      *)
(***************************************************************************)
RECURSIVE Dedup(_)
\* The sequence without the later occurrences of its elements.
Dedup(seq) ==
  IF seq = <<>> THEN <<>>
  ELSE LET front == Dedup(SubSeq(seq, 1, Len(seq) - 1))
           last == seq[Len(seq)]
       IN IF \E i \in 1..Len(front) : front[i] = last THEN front ELSE Append(front, last)

\* The registrations of a block, in the order they were made.
ViewRegs == SelectSeq(registrations, LAMBDA r : r.isViewProvider)

CptRegs == SelectSeq(registrations, LAMBDA r : ~r.isViewProvider /\ r.isComponent)

DirRegs == SelectSeq(registrations, LAMBDA r : ~r.isViewProvider /\ ~r.isComponent)

TokensOf(regs) == [k \in 1..Len(regs) |-> regs[k].provide]

ValuesFor(regs, token) ==
  LET mine == SelectSeq(regs, LAMBDA r : r.provide = token)
  IN [k \in 1..Len(mine) |-> mine[k].useValue]

\* The injectable slots of the node: tData[beginIndex .. directiveStart - 1].
BeginIndex == ProvidersStartIndex(providerIndexes)

ViewBlockEnd == BeginIndex + CptViewProvidersCount(providerIndexes)

Injectables == SubSeq(tData, BeginIndex + 1, directiveStart)

SlotsOf(token, begin, end) == {i \in begin..(end - 1) : tData[i + 1] = token}

\* The last lookup was made for a multi token from within the component's view.
InjectedFromView(token) ==
  /\ injected.token = token
  /\ injected.canAccessViewProviders

InjectedFromOutside(token) ==
  /\ injected.token = token
  /\ ~injected.canAccessViewProviders

\* C7 (as stated): with multi providers for a token in the component's viewProviders
\* and in its providers, a lookup of the token from within the component's view
\* yields the view providers' values before the component providers' values.
C7_ViewValuesFirst ==
  \A token \in MultiTokens :
    (/\ InjectedFromView(token)
     /\ ValuesFor(ViewRegs, token) # <<>>
     /\ ValuesFor(CptRegs, token) # <<>>)
    => /\ injected.value # <<>>
       /\ SubSeq(injected.value[1], 1, Len(ValuesFor(ViewRegs, token)))
            = ValuesFor(ViewRegs, token)

\* C7 (amended): with multi providers for a token in the component's viewProviders
\* and in its providers, a lookup of the token from within the component's view
\* yields the values of the component's providers first, then those of its view
\* providers, then those of the other directives' providers, each group in
\* registration order.
C7_ComponentValuesFirst ==
  \A token \in MultiTokens :
    (/\ InjectedFromView(token)
     /\ ValuesFor(ViewRegs, token) # <<>>
     /\ ValuesFor(CptRegs, token) # <<>>)
    => injected.value =
         <<ValuesFor(CptRegs, token) \o ValuesFor(ViewRegs, token) \o ValuesFor(DirRegs, token)>>

C7_Witness ==
  \E token \in MultiTokens :
    /\ InjectedFromView(token)
    /\ Len(ValuesFor(ViewRegs, token)) = 1
    /\ Len(ValuesFor(CptRegs, token)) = 1
    /\ ValuesFor(DirRegs, token) = <<>>
    /\ injected.value = <<ValuesFor(CptRegs, token) \o ValuesFor(ViewRegs, token)>>

\* C8: the node's injectable slots are, in this order, one slot per token of
\* the component's view providers, one per token of the component's providers
\* and one per further token of the other directives' providers, all below
\* directiveStart; the view-provider count in providerIndexes is the number of
\* view-provider slots, and a lookup that can see view providers finds the
\* view-provider slot of a token that has one.
C8_InjectablesLayout ==
  LET viewSlots == Dedup(TokensOf(ViewRegs))
      providerSlots == Dedup(TokensOf(CptRegs) \o TokensOf(DirRegs))
  IN /\ Injectables = viewSlots \o providerSlots
     /\ CptViewProvidersCount(providerIndexes) = Len(viewSlots)
     /\ directiveStart = BeginIndex + Len(viewSlots) + Len(providerSlots)
     /\ directiveStart = Len(tData)
     /\ Len(blueprint) = Len(tData)
     /\ \A i \in 1..BeginIndex : tData[i] = "prior"
     /\ \A i \in BeginIndex..(directiveStart - 1) :
          blueprint[i + 1].canSeeViewProviders <=> i < ViewBlockEnd
     /\ \A token \in Tokens :
          ValuesFor(ViewRegs, token) # <<>>
          => /\ locateDirectiveOrProvider(DiState, token, TRUE) >= BeginIndex
             /\ locateDirectiveOrProvider(DiState, token, TRUE) < ViewBlockEnd

C8_Witness ==
  /\ ~firstCreatePass
  /\ ViewRegs # <<>>
  /\ CptRegs # <<>>
  /\ \E k \in 1..Len(DirRegs) :
       /\ \A j \in 1..Len(CptRegs) : CptRegs[j].provide # DirRegs[k].provide
       /\ \E j \in 1..Len(ViewRegs) : ViewRegs[j].provide = DirRegs[k].provide
  /\ BeginIndex > 0

\* C9: for each multi token, each block of the node holds at most one slot;
\* the factory in the view-provider slot lists the values of all the view
\* providers registered for the token, the factory in the provider slot those
\* of all the providers registered for it, in registration order.
C9_OneMultiFactoryPerBlock ==
  \A token \in MultiTokens :
    LET viewSlots == SlotsOf(token, BeginIndex, ViewBlockEnd)
        providerSlots == SlotsOf(token, ViewBlockEnd, directiveStart)
        viewValues == ValuesFor(ViewRegs, token)
        providerValues == ValuesFor(CptRegs, token) \o ValuesFor(DirRegs, token)
    IN /\ Cardinality(viewSlots) = (IF viewValues = <<>> THEN 0 ELSE 1)
       /\ Cardinality(providerSlots) = (IF providerValues = <<>> THEN 0 ELSE 1)
       /\ \A i \in viewSlots :
            /\ blueprint[i + 1].factory = "multiViewProvidersFactoryResolver"
            /\ blueprint[i + 1].multi = viewValues
            /\ blueprint[i + 1].index = i
       /\ \A i \in providerSlots :
            /\ blueprint[i + 1].factory = "multiProvidersFactoryResolver"
            /\ blueprint[i + 1].multi = providerValues
            /\ blueprint[i + 1].index = i

C9_Witness ==
  \E token \in MultiTokens :
    /\ Len(ValuesFor(ViewRegs, token)) >= 2
    /\ Len(ValuesFor(CptRegs, token)) >= 1
    /\ Len(ValuesFor(DirRegs, token)) >= 1
    /\ \E i \in SlotsOf(token, ViewBlockEnd, directiveStart) : Len(blueprint[i + 1].multi) >= 2

\* C10 (as stated): with a view-provider multi factory and a provider multi
\* factory for a token, a lookup resolved against the provider-level factory
\* returns the view providers' values, then the providers' values.
C10_ProviderLookupIncludesView ==
  \A token \in MultiTokens :
    (/\ InjectedFromOutside(token)
     /\ ValuesFor(ViewRegs, token) # <<>>
     /\ ValuesFor(CptRegs, token) \o ValuesFor(DirRegs, token) # <<>>)
    => injected.value =
         <<ValuesFor(ViewRegs, token) \o ValuesFor(CptRegs, token) \o ValuesFor(DirRegs, token)>>

\* C10 (amended): with a view-provider multi factory and a provider multi
\* factory for a token, the view-provider factory refers to the provider factory
\* and not the other way round; a lookup resolved against the provider-level
\* factory returns the providers' values only, and a lookup resolved against the
\* view-provider factory returns the providers' values with the view providers'
\* values placed after the values of the component's own providers.
C10_ViewFactoryLinksToProviderFactory ==
  \A token \in MultiTokens :
    LET viewValues == ValuesFor(ViewRegs, token)
        providerValues == ValuesFor(CptRegs, token) \o ValuesFor(DirRegs, token)
        k == Len(ValuesFor(CptRegs, token))
    IN (viewValues # <<>> /\ providerValues # <<>>)
       => /\ \A i \in SlotsOf(token, BeginIndex, ViewBlockEnd) :
               \A j \in SlotsOf(token, ViewBlockEnd, directiveStart) :
                 /\ blueprint[i + 1].providerFactory = <<j>>
                 /\ blueprint[j + 1].providerFactory = <<>>
                 /\ blueprint[j + 1].componentProviders = k
          /\ InjectedFromOutside(token) => injected.value = <<providerValues>>
          /\ InjectedFromView(token)
             => /\ injected.value # <<>>
                /\ Len(injected.value[1]) = Len(viewValues) + Len(providerValues)
                /\ SubSeq(injected.value[1], k + 1, k + Len(viewValues)) = viewValues
                /\ SubSeq(injected.value[1], 1, k)
                     \o SubSeq(injected.value[1], k + Len(viewValues) + 1,
                               Len(injected.value[1])) = providerValues

C10_Witness ==
  \E token \in MultiTokens :
    /\ InjectedFromOutside(token)
    /\ ValuesFor(ViewRegs, token) # <<>>
    /\ ValuesFor(CptRegs, token) # <<>>
    /\ ValuesFor(DirRegs, token) # <<>>
    /\ injected.value = <<ValuesFor(CptRegs, token) \o ValuesFor(DirRegs, token)>>

(***************************************************************************)
(* Properties of listener registration.                                    *)
(***************************************************************************)
\* Number of instructions LView l has run.
InstructionsRun(l) == IF l = lViewId THEN pc ELSE Len(template)

\* The listener functions LView l has registered for an event of a node, in
\* the order registered: all of them, or those with / without a global target.
RegisteredFns(l, node, eventName, targets) ==
  LET at == {k \in 1..InstructionsRun(l) :
               /\ template[k].op = "listener"
               /\ template[k].node = node
               /\ template[k].eventName = eventName
               /\ template[k].eventTargetResolver \in targets}
      RECURSIVE Upto(_)
      Upto(k) == IF k = 0 THEN <<>>
                 ELSE IF k \in at THEN Append(Upto(k - 1), (l - 1) * MaxInstructions + k)
                 ELSE Upto(k - 1)
  IN Upto(InstructionsRun(l))

\* The renderer.listen calls LView l has made for an event of a node.
ListenCallsOf(l, node, eventName, targets) ==
  SelectSeq(listenCalls,
            LAMBDA c : c.lView = l /\ c.node = node /\ c.eventName = eventName
                       /\ c.global \in targets)

RECURSIVE ChainFrom(_, _)
\* The listener functions reached from h through __ngNextListenerFn__, at most
\* `fuel` of them.
ChainFrom(h, fuel) ==
  IF h = 0 \/ fuel = 0 THEN <<>>
  ELSE <<h>> \o ChainFrom(nextListenerFn[h], fuel - 1)

\* C11: for the listeners an LView registers for one event name on one element
\* (the element itself being the event target), it makes exactly one
\* renderer.listen call, with the first of them, and the others are reached
\* from the first through the next links in registration order. Listeners
\* with a global event target (window, document, body) are not coalesced:
\* each gets its own renderer.listen call and none is linked.
C11_OneListenCallPerElementEvent ==
  /\ ~listenerErr
  /\ \A l \in 1..lViewId, node \in Nodes, eventName \in EventNames :
       LET local == RegisteredFns(l, node, eventName, {FALSE})
           global == RegisteredFns(l, node, eventName, {TRUE})
           localCalls == ListenCallsOf(l, node, eventName, {FALSE})
           globalCalls == ListenCallsOf(l, node, eventName, {TRUE})
       IN /\ (tNode[node].isElement /\ local # <<>>)
             => /\ Len(localCalls) = 1
                /\ localCalls[1].listenerFn = local[1]
                /\ ChainFrom(local[1], Len(local) + 1) = local
          /\ [k \in 1..Len(globalCalls) |-> globalCalls[k].listenerFn] = global
          /\ \A k \in 1..Len(global) : nextListenerFn[global[k]] = 0

C11_Witness ==
  /\ lViewId = 2
  /\ pc = Len(template)
  /\ \E k \in 1..Len(template) : template[k].op = "cleanup"
  /\ \E node \in Nodes, eventName \in EventNames :
       /\ Len(RegisteredFns(2, node, eventName, {FALSE})) = 2
       /\ Len(ListenCallsOf(2, node, eventName, {FALSE})) = 1
       /\ eventName \in tNode[node].outputs

\* The handlers coalesced on the listener of a renderer.listen call, in the order in
\* which they were registered: a later instruction registers a function of a higher name.
RECURSIVE Ascending(_)
Ascending(fns) ==
  IF fns = {} THEN <<>>
  ELSE LET least == CHOOSE h \in fns : \A g \in fns : h <= g
       IN <<least>> \o Ascending(fns \ {least})

Returned(outcome) == {h \in Linked(dispatch[1].listenerFn) : dispatch[1].outcomes[h] = outcome}

CtorParams == IF clazz.ctorParams = <<>> THEN <<>> ELSE clazz.ctorParams[1]

\* The name under which a decorator counts, and whether it counts at all.
DecoratorName(dec) == IF isCore \/ dec.import = <<>> THEN dec.name ELSE dec.import[1].name

Counts(dec) == isCore \/ isAngularCore(dec)

\* The parameter carries the decorator of that name.
HasDecorator(param, name) ==
  \E k \in 1..Len(param.decorators) :
    Counts(param.decorators[k]) /\ DecoratorName(param.decorators[k]) = name

\* Positions of the @Inject and @Attribute decorators of the parameter.
TokenDecorators(param) ==
  {k \in 1..Len(param.decorators) :
     Counts(param.decorators[k]) /\ DecoratorName(param.decorators[k]) \in {"Inject", "Attribute"}}

\* The token the claim gives the parameter: <<token>>, or <<>> for none.
ClaimedToken(param) ==
  IF TokenDecorators(param) # {}
  THEN LET last == CHOOSE k \in TokenDecorators(param) : \A j \in TokenDecorators(param) : j <= k
       IN <<WrappedNodeExpr(param.decorators[last].args[1])>>
  ELSE valueReferenceToExpression(param.typeValueReference)

CtorResult == analysis.result

CtorAnalysed == analysis.op = "getConstructorDependencies"

\* C12: when getConstructorDependencies returns deps, the entry of every
\* parameter has as token the argument of the last @Inject or @Attribute of the
\* parameter, or without one the reference to the parameter's type, and each of
\* optional, self, skipSelf, host is true exactly if the parameter carries that
\* decorator; an undecorated parameter of a class type gets the reference to
\* that class and no flag.
C12_TokenAndFlags ==
  (CtorAnalysed /\ CtorResult.kind = "deps") =>
    /\ Len(CtorResult.deps) = Len(CtorParams)
    /\ \A i \in 1..Len(CtorParams) :
         LET param == CtorParams[i]
             dep == CtorResult.deps[i]
         IN /\ <<dep.token>> = ClaimedToken(param)
            /\ dep.optional <=> HasDecorator(param, "Optional")
            /\ dep.self <=> HasDecorator(param, "Self")
            /\ dep.skipSelf <=> HasDecorator(param, "SkipSelf")
            /\ dep.host <=> HasDecorator(param, "Host")
            /\ (param.decorators = <<>> /\ param.typeValueReference.kind = "LOCAL")
               => dep = [token |-> WrappedNodeExpr(param.typeValueReference.name),
                         attributeNameType |-> <<>>, optional |-> FALSE, self |-> FALSE,
                         skipSelf |-> FALSE, host |-> FALSE]

C12_Witness ==
  /\ CtorAnalysed
  /\ CtorResult.kind = "deps"
  /\ Len(CtorParams) = 2
  /\ CtorParams[1].decorators = <<>>
  /\ CtorResult.deps[1].token = WrappedNodeExpr("Service")
  /\ CtorParams[2].typeValueReference.kind = "LOCAL"
  /\ CtorParams[2].decorators = <<CoreDecorator("Inject", <<"TOKEN_A">>),
                                  CoreDecorator("Inject", <<"TOKEN_B">>)>>
  /\ CtorResult.deps[2].token = WrappedNodeExpr("TOKEN_B")

\* The parameter carries an @Inject that gives it a token.
HasInject(param) == HasDecorator(param, "Inject")

\* The type of the parameter gives no token.
NoTokenFromType(param) == valueReferenceToExpression(param.typeValueReference) = <<>>

\* The result is {deps} with one entry per parameter, or {deps: null, errors}.
DepsOrErrors ==
  \/ /\ CtorResult.kind = "deps"
     /\ Len(CtorResult.deps) = Len(CtorParams)
     /\ CtorResult.errors = <<>>
  \/ /\ CtorResult.kind = "errors"
     /\ CtorResult.deps = <<>>
     /\ CtorResult.errors # <<>>

\* The errors are those of the parameters in the set, in the order of the
\* parameters, each with the parameter, its index and its reason.
ErrorsAreOf(indexes) ==
  /\ {CtorResult.errors[k].index : k \in 1..Len(CtorResult.errors)} = indexes
  /\ \A k \in 1..Len(CtorResult.errors) :
       LET err == CtorResult.errors[k]
       IN /\ err.index \in 0..(Len(CtorParams) - 1)
          /\ err.param = CtorParams[err.index + 1].name
          /\ err.reason = CtorParams[err.index + 1].typeValueReference.reason
          /\ err.reason \in ValueUnavailableKinds
          /\ \A j \in 1..(k - 1) : CtorResult.errors[j].index < err.index

\* C13 as stated: what getConstructorDependencies returns is {deps} with one
\* entry per parameter or {deps: null, errors}, and the parameters with an
\* error are exactly those whose type gives no token and that have no @Inject.
C13_ErrorIffNoTypeTokenAndNoInject ==
  (CtorAnalysed /\ CtorResult.kind \in {"deps", "errors"}) =>
    /\ DepsOrErrors
    /\ ErrorsAreOf({i \in 0..(Len(CtorParams) - 1) :
                      NoTokenFromType(CtorParams[i + 1]) /\ ~HasInject(CtorParams[i + 1])})

\* C13: getConstructorDependencies returns null exactly for a class without
\* constructor that has a base class; otherwise, unless a decorator makes it
\* throw, it returns {deps} with one entry per parameter or {deps: null,
\* errors}, never both, and the parameters with an error are exactly those
\* whose type gives no token and that have neither @Inject nor @Attribute; each
\* error carries the parameter, its index and its ValueUnavailableKind.
C13_ErrorIffNoToken ==
  CtorAnalysed =>
    /\ CtorResult.kind \in {"null", "throw", "deps", "errors"}
    /\ CtorResult.kind = "null" <=> (clazz.ctorParams = <<>> /\ clazz.hasBaseClass)
    /\ CtorResult.kind \in {"deps", "errors"} =>
         /\ DepsOrErrors
         /\ ErrorsAreOf({i \in 0..(Len(CtorParams) - 1) :
                           NoTokenFromType(CtorParams[i + 1])
                             /\ TokenDecorators(CtorParams[i + 1]) = {}})

\* Two parameters without token are both reported, after a parameter with one.
C13_Witness ==
  /\ CtorAnalysed
  /\ CtorResult.kind = "errors"
  /\ Len(CtorParams) = 3
  /\ Len(CtorResult.errors) = 2
  /\ CtorResult.errors[1].index = 1
  /\ CtorResult.errors[1].reason = "TYPE_ONLY_IMPORT"
  /\ CtorResult.errors[2].index = 2

(***************************************************************************)
(* Properties of the directive metadata.                                   *)
(***************************************************************************)
Extracted == analysis.op = "extractDirectiveMetadata"

\* The properties of the decorator's object literal, when it has one.
HasProperties == Len(decorator.args) = 1 /\ decorator.args[1].isObjectLiteral

Properties == decorator.args[1].properties

\* The decorator is well formed up to the constructor: it has no jit property
\* and its host object has no parse error.
WellFormedBeforeCtor ==
  /\ HasProperties
  /\ ~Properties.jit
  /\ Properties.host # <<>> => ErrorsOf(Properties.host[1]) = <<>>

\* The constructor of the class has a parameter without token.
UnresolvableCtor == getConstructorDependencies(clazz).kind = "errors"

\* C14 as stated, for a decorator that says selector: null: the directive is
\* extracted without fatal diagnostic.
C14_SelectorNullLiteralTolerated ==
  (Extracted /\ WellFormedBeforeCtor /\ UnresolvableCtor
     /\ Properties.selector = <<NullValue>>)
    => analysis.result.kind = "ok"

\* C14: a directive without selector property and without default selector,
\* whose constructor has a parameter without token, is extracted with selector
\* null and deps 'invalid' and no fatal diagnostic; with a selector that is a
\* non-empty string the same class fails with PARAM_MISSING_TOKEN, whose
\* message names the first such parameter (or gives its index if it has no
\* name).
C14_AbstractTolerated ==
  (Extracted /\ WellFormedBeforeCtor /\ UnresolvableCtor) =>
    /\ (Properties.selector = <<>> /\ defaultSelector = <<>>) =>
         /\ analysis.result.kind = "ok"
         /\ analysis.result.metadata.selector = <<>>
         /\ analysis.result.metadata.deps.kind = "invalid"
    /\ (Properties.selector # <<>> /\ Properties.selector[1].type = "string"
          /\ Properties.selector[1].value # "") =>
         /\ analysis.result.kind = "throw"
         /\ analysis.result.thrown[1].code = "PARAM_MISSING_TOKEN"
         /\ \E i \in 1..Len(CtorParams) :
              /\ NoTokenFromType(CtorParams[i]) /\ TokenDecorators(CtorParams[i]) = {}
              /\ \A j \in 1..(i - 1) :
                   ~(NoTokenFromType(CtorParams[j]) /\ TokenDecorators(CtorParams[j]) = {})
              /\ analysis.result.thrown[1].message.messageText[2] =
                   IF CtorParams[i].name # <<>> THEN CtorParams[i].name[1] ELSE ToString(i - 1)

C14_Witness ==
  /\ Extracted
  /\ decorator.name = "Directive"
  /\ Properties.selector = <<>>
  /\ defaultSelector = <<>>
  /\ UnresolvableCtor
  /\ Len(CtorParams) = 3
  /\ analysis.result.kind = "ok"
  /\ analysis.result.metadata.deps.kind = "invalid"

DirectiveProperties == IF HasProperties THEN Properties ELSE EmptyDirective

\* What an entry of an inputs or outputs array declares: 'a' the field a under
\* its own name, 'a: x' and 'a:x' the field a as x, ' b:y:z' the field b as y.
Declared(entry) ==
  CASE entry = <<"a">> -> [field |-> <<"a">>, property |-> <<"a">>]
    [] entry = <<"a", ":", " ", "x">> -> [field |-> <<"a">>, property |-> <<"x">>]
    [] entry = <<"a", ":", "x">> -> [field |-> <<"a">>, property |-> <<"x">>]
    [] entry = <<" ", "b", ":", "y", ":", "z">> -> [field |-> <<"b">>, property |-> <<"y">>]

\* The entries of the array that declare the field, by position.
DeclaringEntries(array, field) == {i \in 1..Len(array) : Declared(array[i]).field = field}

\* The decorators of that name from @angular/core on the member, by position.
DeclaringDecorators(member, name) ==
  {k \in 1..Len(member.decorators) :
     /\ member.decorators[k].import # <<>>
     /\ member.decorators[k].import[1].name = name
     /\ member.decorators[k].import[1].from = "@angular/core"}

Last(positions) == CHOOSE k \in positions : \A j \in positions : j <= k

\* The mapping the claim gives for a decorator-level array and the member
\* decorators of one name: a field declared by a member has the value of the
\* last decorator of the member, any other the value of the last entry of the
\* array that declares it.
ClaimedMapping(array, name) ==
  LET members == {clazz.members[i] : i \in 1..Len(clazz.members)}
      declaring == {m \in members : DeclaringDecorators(m, name) # {}}
      fromMembers == {m.name : m \in declaring}
      fromArray == {Declared(array[i]).field : i \in 1..Len(array)}
      memberOf(field) == CHOOSE m \in declaring : m.name = field
      valueOfMember(m) ==
        LET dec == m.decorators[Last(DeclaringDecorators(m, name))]
        IN IF dec.args = <<>> THEN NameValue(m.name)
           ELSE IF name = "Input" THEN PairValue(dec.args[1], m.name)
           ELSE NameValue(dec.args[1])
  IN [field \in fromMembers \cup fromArray |->
        IF field \in fromMembers THEN valueOfMember(memberOf(field))
        ELSE NameValue(Declared(array[Last(DeclaringEntries(array, field))]).property)]

ArrayOf(property) == IF property = <<>> THEN <<>> ELSE property[1]

\* C15: the inputs that extractDirectiveMetadata returns have one entry for
\* every field declared in the inputs array of the decorator or by an @Input on
\* a member, and no other; for a field declared more than once the declaration
\* applied last gives the value: the last @Input of the member if there is one,
\* else the last entry of the array. Likewise the outputs.
C15_LastDeclarationWins ==
  (Extracted /\ analysis.result.kind = "ok") =>
    /\ analysis.result.inputs = ClaimedMapping(ArrayOf(DirectiveProperties.inputs), "Input")
    /\ analysis.result.outputs = ClaimedMapping(ArrayOf(DirectiveProperties.outputs), "Output")

\* The field a is declared as x in the decorator and as p on the member.
C15_Witness ==
  /\ Extracted
  /\ analysis.result.kind = "ok"
  /\ Properties.inputs = <<(<<(<<"a">>), (<<"a", ":", " ", "x">>)>>)>>
  /\ clazz.members[1].decorators = <<CoreDecorator("Input", <<(<<"p">>)>>)>>
  /\ DOMAIN analysis.result.inputs = {<<"a">>}
  /\ analysis.result.inputs[<<"a">>] = PairValue(<<"p">>, <<"a">>)

Resolved == resolution.op = "resolve"

WithoutSelector ==
  ClassDecorator(decorator.name, <<ObjectLiteral([Properties EXCEPT !.selector = <<>>])>>)

EmptySelector == HasProperties /\ Properties.selector = <<StringValue("")>>

\* C17 as stated: whatever the default selector, the outcome for selector ''
\* is the outcome for the decorator without selector property.
C17_EmptyIsAbsent ==
  (Extracted /\ EmptySelector) =>
    analysis.result = extractDirectiveMetadata(clazz, WithoutSelector, defaultSelector)

\* C17: with a default selector, the outcome for selector '' is the outcome
\* for the decorator without selector property, the default being used; with
\* no default, selector '' is the fatal diagnostic DIRECTIVE_MISSING_SELECTOR,
\* while the decorator without selector property is extracted with selector
\* null or fails for another reason.
C17_EmptyIsDefault ==
  (Extracted /\ EmptySelector) =>
    LET absent == extractDirectiveMetadata(clazz, WithoutSelector, defaultSelector)
    IN IF defaultSelector # <<>>
       THEN /\ analysis.result = absent
            /\ analysis.result.kind = "ok" => analysis.result.metadata.selector = defaultSelector
       ELSE /\ analysis.result.kind = "throw"
            /\ analysis.result.thrown[1].code = "DIRECTIVE_MISSING_SELECTOR"
            /\ absent.kind = "ok" => absent.metadata.selector = <<>>
            /\ absent.kind = "throw" => absent.thrown[1].code # "DIRECTIVE_MISSING_SELECTOR"

C17_Witness ==
  /\ Extracted
  /\ EmptySelector
  /\ defaultSelector = <<"ng-component">>
  /\ analysis.result.kind = "ok"
  /\ analysis.result.metadata.selector = <<"ng-component">>

\* The parameter's type is TemplateRef imported from @angular/core.
TypedTemplateRef(param) == param.typeValueReference = TemplateRefType

\* A parameter of the constructor is typed TemplateRef.
InjectsTemplateRef == \E i \in 1..Len(CtorParams) : TypedTemplateRef(CtorParams[i])

DtsRead == analysis.op = "getDirectiveMetadata"

HostObject == IF Properties.host = <<>> THEN <<>> ELSE Properties.host[1]

\* The parse errors of the bindings of the host object.
HostParseErrors ==
  UNION {{HostObject[i].errors[k] : k \in 1..Len(HostObject[i].errors)} :
           i \in {j \in 1..Len(HostObject) : Head(HostObject[j].key) \in {"[", "("}}}

\* The message is the list of all parse errors of the host object, each once,
\* joined by newlines.
ListsAllHostErrors(message) ==
  /\ Len(message) = 2 * Cardinality(HostParseErrors) - 1
  /\ {message[i] : i \in {j \in 1..Len(message) : j % 2 = 1}} = HostParseErrors
  /\ \A i \in 1..Len(message) : i % 2 = 0 => message[i] = "\n"

\* The extraction reaches the host object: no earlier step throws.
ReachesHost ==
  /\ HasProperties
  /\ ~Properties.jit
  /\ parseSelector(clazz, Properties, defaultSelector).thrown = <<>>
  /\ clazz.members = <<>>

\* C19: when bindings of the host object of a directive have parse errors,
\* extractDirectiveMetadata throws one FatalDiagnosticError
\* HOST_BINDING_PARSE_ERROR whose message is the list of all of them joined by
\* newlines, and the JIT facade throws one Error with such a message.
C19_OneDiagnosticListsAllErrors ==
  /\ (Extracted /\ ReachesHost /\ HostParseErrors # {}) =>
       /\ analysis.result.kind = "throw"
       /\ Len(analysis.result.thrown) = 1
       /\ analysis.result.thrown[1].code = "HOST_BINDING_PARSE_ERROR"
       /\ ListsAllHostErrors(analysis.result.thrown[1].message)
  /\ (analysis.op = "extractHostBindings" /\ HostParseErrors # {}) =>
       /\ Len(analysis.result.thrown) = 1
       /\ analysis.result.thrown[1].code = "Error"
       /\ ListsAllHostErrors(analysis.result.thrown[1].message)

\* Three parse errors in two bindings give one diagnostic.
C19_Witness ==
  /\ Extracted
  /\ ReachesHost
  /\ Cardinality(HostParseErrors) = 3
  /\ analysis.result.kind = "throw"
  /\ analysis.result.thrown[1].code = "HOST_BINDING_PARSE_ERROR"
  /\ Len(analysis.result.thrown[1].message) = 5

\* The fields that the mapping of a host directive names and that the host
\* directive does not have.
UnknownFields(mapping, known) == IF mapping = <<>> THEN {} ELSE DOMAIN mapping[1] \ known

\* C20: the metadata that extractDirectiveMetadata returns has no host
\* directive whose inputs or outputs name a field that is no input or output
\* of the host directive class: a decorator with such an entry is rejected
\* with an error.
C20_UnknownFieldRejected ==
  (Extracted /\ analysis.result.kind = "ok") =>
    \A i \in 1..Len(analysis.result.hostDirectives) :
      LET meta == analysis.result.hostDirectives[i]
      IN /\ UnknownFields(meta.inputs, meta.directive.inputs) = {}
         /\ UnknownFields(meta.outputs, meta.directive.outputs) = {}

\* hostDirectives: [{directive: HostDir, inputs: ['z']}] has been extracted.
C20_Witness ==
  /\ Extracted
  /\ analysis.result.kind = "ok"
  /\ Len(analysis.result.hostDirectives) = 1
  /\ analysis.result.hostDirectives[1].directive = HostDirReference
  /\ analysis.result.hostDirectives[1].inputs # <<>>
  /\ DOMAIN analysis.result.hostDirectives[1].inputs[1] = {<<"z">>}

\* The two compilers gave metadata for the class whose facade was converted.
bothCompiled ==
  /\ analysis.op = "convertDirectiveFacadeToMetadata"
  /\ analysis.result.kind = "ok"
  /\ extractDirectiveMetadata(clazz, decorator, defaultSelector).kind = "ok"

\* Some decorator of a member of the class has the empty string as its first argument.
hasEmptyArgument ==
  \E i \in 1..Len(clazz.members) : \E k \in 1..Len(clazz.members[i].decorators) :
    LET dec == clazz.members[i].decorators[k]
    IN ~dec.argsNull /\ Len(dec.args) > 0 /\ dec.args[1] = <<>>

\* The inputs, outputs, host properties and host listeners of the JIT conversion in the
\* state are those of the static analysis of the same class.
sameBindings ==
  LET aot == extractDirectiveMetadata(clazz, decorator, defaultSelector)
  IN /\ analysis.result.inputs = aot.inputs
     /\ analysis.result.outputs = aot.outputs
     /\ analysis.result.hostProperties = aot.hostProperties
     /\ analysis.result.hostListeners = aot.hostListeners

\* C40: for the same directive declaration convertDirectiveFacadeToMetadata and
\* extractDirectiveMetadata give the same inputs, outputs and host bindings: the same keys
\* and, for a key given both in the decorator and on a member, the same winner.
C40_JitAgreesWithAot == bothCompiled => sameBindings

\* The two agree on every class whose member decorators have no empty-string argument.
C40_AgreeWithoutEmptyArgument == (bothCompiled /\ ~hasEmptyArgument) => sameBindings

\* The input a is given in the decorator and on the member, the host property id in the
\* host object and on the member; both compilers take the member's in each case.
C40_Witness ==
  /\ bothCompiled
  /\ sameBindings
  /\ decorator.args[1].properties.inputs # <<>>
  /\ decorator.args[1].properties.host # <<>>
  /\ analysis.result.inputs[<<"a">>] = PairValue(<<"p">>, <<"a">>)
  /\ <<"i", "d">> \in DOMAIN analysis.result.hostProperties
  /\ analysis.result.hostProperties[<<"i", "d">>] = getSafePropertyAccessString("this", <<"a">>)

(***************************************************************************)
(* Properties of Testability.                                               *)
(***************************************************************************)
\* The done callbacks waiting in the queue.
Queued == {callbacks[i].doneCb : i \in DOMAIN callbacks}

\* The calls made so far of one done callback.
CallsOf(doneCb) == {i \in DOMAIN doneCalls : doneCalls[i].doneCb = doneCb}

\* C29: every callback passed to whenStable is invoked at most once, by the stable
\* application or by its timeout and never by both: a callback that was invoked has one
\* call, is no longer queued and has no timer left that could invoke it again.
C29_DoneCallbackAtMostOnce ==
  \A doneCb \in DoneCallbacks :
    /\ Cardinality(CallsOf(doneCb)) <= 1
    /\ CallsOf(doneCb) # {} =>
         /\ doneCb \notin Queued
         /\ ~(\E t \in timeouts : t.doneCb = doneCb)

\* Two callbacks, both with a timeout, were invoked: one by its timeout, the other by
\* the application becoming stable.
C29_Witness ==
  /\ \E i \in DOMAIN doneCalls : doneCalls[i].by = "timeout"
  /\ \E i \in DOMAIN doneCalls : doneCalls[i].by = "stable" /\ doneCalls[i].timeoutId > 0

\* C34: a done callback invoked because the application became stable, not by its
\* timeout, is invoked at a moment when isStable() is true: when the application became
\* unstable after the microtask was scheduled, the callback waits for the next stability.
C34_StableCallWhenStable ==
  \A i \in DOMAIN doneCalls : doneCalls[i].by = "stable" => doneCalls[i].stable

\* A done callback was invoked by the microtask while a request was pending.
C34_Witness ==
  \E i \in DOMAIN doneCalls :
    /\ doneCalls[i].by = "stable"
    /\ ~doneCalls[i].stable
    /\ pendingCount > 0
    /\ isZoneStable /\ ~hasPendingMacrotasks

\* C35: after any calls of increasePendingRequestCount and decreasePendingRequestCount,
\* those that throw included, the pending request count is not negative (a call that
\* throws leaves the count, and with it isStable(), as they were).
C35_PendingCountNeverNegative == pendingCount >= 0

\* decreasePendingRequestCount has thrown: the count is below zero, and the application,
\* its zone stable and without macrotasks, is not stable.
C35_Witness ==
  /\ pendingCount = -1
  /\ isZoneStable /\ ~hasPendingMacrotasks
  /\ ~isStable(isZoneStable, pendingCount, hasPendingMacrotasks)

(***************************************************************************)
(* Properties of the compilation pipeline.                                  *)
(***************************************************************************)
PhaseOrder == <<"Detect", "Analyze", "Register", "Resolve", "Compile">>

\* The phases a class went through, in the order they began.
PhasesOf(c) ==
  LET events == SelectSeq(traitCompiler.log, LAMBDA e : e.clazz = c)
  IN [i \in DOMAIN events |-> events[i].phase]

\* The places in the log where a phase of a class began.
Began(c, phase) ==
  {i \in DOMAIN traitCompiler.log : traitCompiler.log[i] = [clazz |-> c, phase |-> phase]}

\* The classes a handler has to analyse: decorated, and not in a declaration file.
Analysable == {"AppModule", "AppCmp", "OtherCmp"}

\* C21: the phases of every class begin only in the order Detect, Analyze, Register,
\* Resolve, Compile, none after a phase of the class that failed or found nothing to do,
\* and when the Resolve phase of any class begins every class has been analysed and,
\* unless its analysis failed, registered.
C21_PhasesInOrder ==
  /\ \A c \in Classes :
       /\ Len(PhasesOf(c)) <= Len(PhaseOrder)
       /\ \A i \in DOMAIN PhasesOf(c) : PhasesOf(c)[i] = PhaseOrder[i]
       /\ DecoratorOn(c) = "none" => Len(PhasesOf(c)) <= 1
  /\ \A d \in traitCompiler.diagnostics :
       PhasesOf(d.clazz)[Len(PhasesOf(d.clazz))] = d.phase
  /\ \A i \in DOMAIN traitCompiler.log :
       traitCompiler.log[i].phase = "Resolve" =>
         \A c \in Analysable :
           /\ \E j \in Began(c, "Analyze") : j < i
           /\ c \notin inputProgram.malformed => \E j \in Began(c, "Register") : j < i

\* A class went through all five phases and another stopped at a failed phase.
C21_Witness ==
  /\ \E c \in Classes : Len(PhasesOf(c)) = Len(PhaseOrder)
  /\ traitCompiler.diagnostics # {}

\* C22: after analyzeAsync issued its analyses, a Resolve or Compile phase has begun
\* only when every analysis issued has settled, in whatever order they completed.
C22_ResolveAfterAllSettled ==
  (\E i \in DOMAIN traitCompiler.log : traitCompiler.log[i].phase \in {"Resolve", "Compile"})
    => \A sf \in DOMAIN promises : promises[sf] # "pending"

\* analyzeAsync is done and the classes compiled, the analysis issued last having
\* completed first.
C22_Witness ==
  /\ analyzing = "done"
  /\ \E i \in Began("OtherCmp", "Analyze"), j \in Began("AppCmp", "Analyze") : i < j
  /\ \E c \in Classes : Began(c, "Compile") # {}

\* The NgModule statements emitted that set the scope of a component.
SetComponentScopes ==
  {i \in DOMAIN traitCompiler.statements : traitCompiler.statements[i].fn = "setComponentScope"}

StrategyFollowsMode ==
  compilation # <<>> =>
    /\ compilation[1].cycleHandlingStrategy =
         (IF compilation[1].compilationMode = "FULL" THEN "UseRemoteScoping" ELSE "Error")
    /\ compilation[1].compilationMode = "PARTIAL" =>
         /\ SetComponentScopes = {}
         /\ \A c \in inputProgram.cyclic :
              /\ traitCompiler.state[c] \notin {"Resolved", "Compiled"}
              /\ Began(c, "Resolve") # {} =>
                   [clazz |-> c, phase |-> "Resolve"] \in traitCompiler.diagnostics

\* C23: the cycle-handling strategy is chosen when the compilation is made and never
\* changes: remote scoping in full mode, error in partial mode, where a component in a
\* cycle gets an error and no setComponentScope statement is emitted.
C23_StrategyChosenOnce ==
  /\ []StrategyFollowsMode
  /\ [][compilation # <<>> => compilation' = compilation]_vars

\* Partial mode: a component in a cycle got its error and the NgModule was compiled.
C23_Witness ==
  /\ compilation # <<>>
  /\ compilation[1].compilationMode = "PARTIAL"
  /\ \E c \in inputProgram.cyclic :
       [clazz |-> c, phase |-> "Resolve"] \in traitCompiler.diagnostics
  /\ traitCompiler.state["AppModule"] = "Compiled"

\* The components a change of the resource files concerns.
Affected(modified) ==
  {c \in Components :
     \/ \E f \in modified : ResourcesOf(c).template = <<f>>
     \/ ResourcesOf(c).styles \cap modified # {}}

\* The components analysed so far.
AnalysedComponents == {c \in Components : Began(c, "Register") # {}}

\* C26: processing a resource-only change keeps the compilation of the compiler, begins
\* no phase of any class and leaves the state of every trait as it is; it updates the
\* resources of the analysed components whose template or style file is in the modified
\* set, once each, and of no other class.
C26_ResourceUpdateIsNarrow ==
  [][ticket'.count # ticket.count =>
       /\ compilation' = compilation
       /\ traitCompiler'.log = traitCompiler.log
       /\ traitCompiler'.state = traitCompiler.state
       /\ \A c \in Classes :
            traitCompiler'.resourceUpdates[c] =
              IF /\ compilation # <<>>
                 /\ c \in Affected(ticket'.modifiedResourceFiles) \cap AnalysedComponents
              THEN traitCompiler.resourceUpdates[c] + 1
              ELSE traitCompiler.resourceUpdates[c]]_vars

\* A change was processed that updated one analysed component and not the other.
C26_Witness ==
  /\ ticket.count > 0
  /\ \E c, d \in AnalysedComponents :
       traitCompiler.resourceUpdates[c] > 0 /\ traitCompiler.resourceUpdates[d] = 0

HasSyntheticReference == inputProgram.declSynthetic \/ inputProgram.importSynthetic

\* C30: in a setComponentScope call the directive list, and likewise the pipe list, is
\* a function closure exactly when the NgModule has a synthetic declaration or import
\* reference and the list is not empty; otherwise it is a plain array.
C30_ClosureIffSyntheticAndNonEmpty ==
  \A i \in SetComponentScopes :
    LET callExpr == traitCompiler.statements[i]
        scope == RemoteScopeOf(callExpr.decl)
    IN /\ callExpr.directives.kind =
            (IF HasSyntheticReference /\ scope.directives # <<>>
             THEN "FunctionExpr" ELSE "LiteralArrayExpr")
       /\ callExpr.pipes.kind =
            (IF HasSyntheticReference /\ scope.pipes # <<>>
             THEN "FunctionExpr" ELSE "LiteralArrayExpr")
       /\ callExpr.directives.entries = scope.directives
       /\ callExpr.pipes.entries = scope.pipes

\* Two calls were emitted for an NgModule with a synthetic reference: one with a
\* wrapped directive list and a plain, empty pipe list, one the other way round.
C30_Witness ==
  /\ HasSyntheticReference
  /\ \E i, j \in SetComponentScopes :
       /\ traitCompiler.statements[i].directives.kind = "FunctionExpr"
       /\ traitCompiler.statements[i].pipes.kind = "LiteralArrayExpr"
       /\ traitCompiler.statements[j].directives.kind = "LiteralArrayExpr"
       /\ traitCompiler.statements[j].pipes.kind = "FunctionExpr"

\* C32: whenever a promise returned by analyzeAsync() is fulfilled, every source file is
\* analysed and resolveCompilation has completed, also for a call made while an earlier
\* call still awaits its analyses.
C32_FulfilledMeansResolved ==
  (observed.api = "analyzeAsync" /\ observed.outcome = "fulfilled") => observed.resolved

\* analyzeAsync() was called again while the first call awaited an analysis, and its
\* promise was fulfilled with the analysis still pending.
C32_Witness ==
  /\ observed = [api |-> "analyzeAsync", outcome |-> "fulfilled", resolved |-> FALSE]
  /\ analyzing = "awaiting"
  /\ \E sf \in DOMAIN promises : promises[sf] = "pending"

\* C33: every call that goes through ensureAnalyzed() works on a compilation whose
\* resolveCompilation has completed, also a call made while analyzeAsync() is in flight
\* or after one of its analyses was rejected.
C33_HandedOutMeansResolved ==
  observed.outcome = "handed out" => observed.resolved

\* getDiagnostics() or prepareEmit() got a compilation that was never resolved, after
\* analyzeAsync() was rejected.
C33_Witness ==
  /\ observed.outcome = "handed out"
  /\ ~observed.resolved
  /\ analyzing = "rejected"
  /\ compilation # <<>>

(***************************************************************************)
(* Properties of the errors thrown for malformed metadata.                  *)
(***************************************************************************)
\* The error codes a FatalDiagnosticError of the analysis carries.
DiagnosticCodes ==
  {"DECORATOR_ARG_NOT_LITERAL", "DECORATOR_ARITY_WRONG", "DECORATOR_UNEXPECTED",
   "DIRECTIVE_MISSING_SELECTOR", "HOST_BINDING_PARSE_ERROR", "PARAM_MISSING_TOKEN",
   "VALUE_HAS_WRONG_TYPE"}

\* What the operations on the class threw.
ThrownErrors ==
  (IF analysis.op = "none" THEN {}
   ELSE {analysis.result.thrown[i] : i \in DOMAIN analysis.result.thrown})
  \cup (IF resolution.op = "none" THEN {}
        ELSE {resolution.result.thrown[i] : i \in DOMAIN resolution.result.thrown})

\* C27 as stated: malformed metadata never makes an operation throw a plain exception;
\* whatever is raised is a diagnostic.
C27_NeverPlainError == \A error \in ThrownErrors : error.code \in DiagnosticCodes

\* C27: the analysis of the compiler raises malformed metadata as a FatalDiagnosticError
\* with an error code, while the JIT facade throws a plain Error exactly when the host
\* object has bindings with parse errors.
C27_DiagnosticExceptJit ==
  /\ analysis.op \in {"extractDirectiveMetadata", "getDirectiveMetadata"} =>
       \A i \in DOMAIN analysis.result.thrown :
         analysis.result.thrown[i].code \in DiagnosticCodes
  /\ resolution.op = "resolve" =>
       \A i \in DOMAIN resolution.result.thrown :
         resolution.result.thrown[i].code \in DiagnosticCodes
  /\ analysis.op = "extractHostBindings" =>
       /\ analysis.result.thrown # <<>> <=> HostParseErrors # {}
       /\ \A i \in DOMAIN analysis.result.thrown : analysis.result.thrown[i].code = "Error"

\* The JIT facade threw for a host object with a parse error.
C27_Witness ==
  /\ analysis.op = "extractHostBindings"
  /\ analysis.result.thrown # <<>>
  /\ analysis.result.thrown[1].code = "Error"

(***************************************************************************)
(* Properties of the scope of an NgModule                                   *)
(***************************************************************************)
\* The modules a module leads to in one step, by its analysis.
Edges(m) ==
  {ngModules[m].importRefs[i] : i \in DOMAIN ngModules[m].importRefs}
  \cup ({ngModules[m].exports[i] : i \in DOMAIN ngModules[m].exports} \cap Modules)

RECURSIVE Closure(_, _)
Closure(reached, rounds) ==
  IF rounds = 0 THEN reached
  ELSE Closure(reached \cup UNION {Edges(m) : m \in reached}, rounds - 1)

\* The modules reachable from a module in one step or more, and the module with them.
ReachableFrom(m) == Closure(Edges(m), Cardinality(Modules))
ReachableWith(m) == {m} \cup ReachableFrom(m)

\* A cycle of the module graph can be reached from the module.
ReachesCycle(m) == \E r \in ReachableWith(m) : r \in ReachableFrom(r)

\* The classes that a module declares or exports.
ClassesGivenBy(m) ==
  {ngModules[m].declarations[i] : i \in DOMAIN ngModules[m].declarations}
  \cup ({ngModules[m].exports[i] : i \in DOMAIN ngModules[m].exports} \ Modules)

NoDuplicates(refs) == \A i, j \in DOMAIN refs : refs[i] = refs[j] => i = j

\* C24: for a module graph without cycles, the scope of a module holds exactly the
\* declarations and re-exported declarations of the modules reachable from it by imports
\* and exports, the module itself included: none of them is missing, nothing else is in
\* it, and no class reference is in it twice.
C24_ScopeIsReachableUnion ==
  \A m \in Modules :
    (scopeCache[m] # <<>> /\ ~ReachesCycle(m)) =>
      LET scope == scopeCache[m][1].scope
      IN /\ {scope[i] : i \in DOMAIN scope} = UNION {ClassesGivenBy(r) : r \in ReachableWith(m)}
         /\ NoDuplicates(scope)

\* The scope of A is computed in a graph without cycles where A exports C without
\* importing it, imports B, and the three modules share declarations.
C24_Witness ==
  /\ scopeCache["A"] # <<>>
  /\ ~ReachesCycle("A")
  /\ ngModules["A"].importRefs = <<"B">>
  /\ ngModules["A"].exports = <<"X", "C">>
  /\ ReachableWith("A") = Modules
  /\ Len(scopeCache["A"][1].scope) = 3

DiagnosticsOf(m) == SelectSeq(scopeDiagnostics, LAMBDA d : d.module = m)

\* What the computation of a scope over a cycle ends with.
CycleOutcome(m) ==
  /\ scopeCache[m][1].cycle
  /\ IF scopeMode = "FULL"
     THEN /\ {DeclarationsOf(m)[i] : i \in DOMAIN DeclarationsOf(m)} \subseteq remoteScopes
          /\ scopeDiagnostics = <<>>
     ELSE /\ Len(DiagnosticsOf(m)) = 1
          /\ remoteScopes = {}

\* C25: for a module graph with a cycle (A imports B, B imports A, with components
\* declared by both), the computation of a scope comes to its end, its stack never
\* deeper than the number of modules, and it ends with remote scoping and no diagnostic
\* in full mode, with one cycle diagnostic that stays the only one in partial mode.
C25_CycleTerminatesWithOutcome ==
  /\ \A m \in Modules :
       (traversal.start = <<m>> /\ ReachesCycle(m)) ~> (scopeCache[m] # <<>>)
  /\ [](Len(traversal.stack) <= Cardinality(Modules))
  /\ [](\A m \in Modules : (scopeCache[m] # <<>> /\ ReachesCycle(m)) => CycleOutcome(m))

\* A imports B and B imports A, and the scopes of both are computed in partial mode.
C25_Witness ==
  /\ scopeMode = "PARTIAL"
  /\ "B" \in Edges("A") /\ "A" \in Edges("B")
  /\ scopeCache["A"] # <<>> /\ scopeCache["B"] # <<>>
  /\ Len(scopeDiagnostics) = 2
  /\ CycleOutcome("A") /\ CycleOutcome("B")

\* A imports B and B imports A, and the scope of A is computed in full mode.
C25_WitnessRemote ==
  /\ scopeMode = "FULL"
  /\ "B" \in Edges("A") /\ "A" \in Edges("B")
  /\ scopeCache["A"] # <<>>
  /\ CycleOutcome("A")

====
